---- MODULE Spec2Model ----
(***************************************************************************)
(* Udhari Kitap backend: the expense store, the settlement (transaction)  *)
(* store, the write handlers in front of them and the balance engine that *)
(* is recomputed from the stored records on every read.                    *)
(*                                                                         *)
(* Money: the API takes rupees as decimals and stores integer paise.  A    *)
(* rupee input is modelled as an integer number of thousandths of a rupee  *)
(* (so 0.01 rupee = 10, 0.004 rupee = 4, 3.00 rupees = 3000); paise are    *)
(* plain integers.  An expense or transaction id is its position in the    *)
(* collection (documents are never removed from either collection).        *)
(***************************************************************************)
EXTENDS Integers, Sequences, FiniteSets, TLC

VARIABLES
  expenses,      \* the Expense collection, in creation order
  transactions,  \* the Transaction collection, in creation order
  preDelete,     \* history: the balances read just before the last soft delete
  input,         \* the argument handed to the validators (validator specification)
  result,        \* what the validators returned for it
  requests,      \* the edit requests in flight (overlapping-edit specification)
  activities,    \* the activity creations attempted, in order (activity specification)
  friends,       \* the Friend collection (friendship specifications)
  tasks          \* the friendship tasks and addFriend calls in flight

vars == <<expenses, transactions, preDelete, input, result, requests, activities,
          friends, tasks>>

\* What is written next to the ledger.
feeds == <<activities, friends, tasks>>

\* The friendship side of it.
friendships == <<friends, tasks>>

\* The two collections the handlers write.
store == <<expenses, transactions>>

\* What the ledger specification leaves alone.
others == <<preDelete, input, result, requests, feeds>>

\* ------------------------------------------------------------------ bounds
MaxExpenses == 2
MaxTransactions == 1
MaxTotal == 4
MaxParticipants == 2
MaxShare == 3
MaxChainExpenses == 3
MaxLoggedExpenses == 1
MaxRacers == 2
MaxActivities == 3
MaxTasks == 3

\* ------------------------------------------------------------- identities
Users == {"alice", "bob", "charlie"}
GhostId == "ghost"
None == "none"
SplitMethods == {"equal", "unequal", "percent"}

userExists(id) == id \in Users

\* ------------------------------------------------------------------ money
rupeesToPaise(rupees) == (rupees + 5) \div 10

paiseToRupees(paise) == paise * 10

\* --------------------------------------------------------- small helpers
RECURSIVE sumShares(_)
sumShares(participants) ==
  IF participants = <<>> THEN 0
  ELSE Head(participants).share + sumShares(Tail(participants))

abs(n) == IF n < 0 THEN -n ELSE n

isParticipant(expense, userId) ==
  \E i \in 1..Len(expense.participants) : expense.participants[i].user = userId

\* Array.prototype.find on expense.participants: the first entry of the user,
\* or the undefined entry when the user is not listed.
Undefined == [user |-> None, share |-> 0]

isDefined(participant) == participant.user # None

findParticipant(expense, userId) ==
  LET idx == {i \in 1..Len(expense.participants) :
                expense.participants[i].user = userId}
  IN IF idx = {} THEN Undefined
     ELSE expense.participants[CHOOSE i \in idx : \A j \in idx : i <= j]

statusOf(balance) ==
  IF balance > 0 THEN "owes_you" ELSE IF balance < 0 THEN "you_owe" ELSE "settled"

\* ---------------------------------------------------------- balance engine
\* Mutant: the payer is credited with the whole amount, own share included.
calculateOwedFromExpense_fullAmount(expense, userId) ==
  IF expense.payer # userId THEN 0 ELSE expense.amount

calculateOwedFromExpense(expense, userId) ==
  IF expense.payer # userId THEN 0
  ELSE LET userParticipant == findParticipant(expense, userId)
           userShare == IF isDefined(userParticipant) THEN userParticipant.share ELSE 0
       IN expense.amount - userShare

\* Mutant: a participant owes the whole amount instead of the own share.
calculateOwingFromExpense_wholeAmount(expense, userId) ==
  IF expense.payer = userId THEN 0
  ELSE IF isDefined(findParticipant(expense, userId)) THEN expense.amount ELSE 0

calculateOwingFromExpense(expense, userId) ==
  IF expense.payer = userId THEN 0
  ELSE LET userParticipant == findParticipant(expense, userId)
       IN IF isDefined(userParticipant) THEN userParticipant.share ELSE 0

\* Mutant: the payer is owed, by the other user alone, everything the payer
\* laid out for others.
calculatePairwiseBalanceFromExpense_wholeDebt(expense, currentUserId, otherUserId) ==
  IF expense.payer = currentUserId
  THEN IF isParticipant(expense, otherUserId)
       THEN calculateOwedFromExpense(expense, currentUserId) ELSE 0
  ELSE IF expense.payer = otherUserId
  THEN IF isParticipant(expense, currentUserId)
       THEN -calculateOwedFromExpense(expense, otherUserId) ELSE 0
  ELSE 0

\* Mutant: the share owed to the other user is returned without the minus sign.
calculatePairwiseBalanceFromExpense_unsigned(expense, currentUserId, otherUserId) ==
  IF expense.payer = currentUserId
  THEN LET otherParticipant == findParticipant(expense, otherUserId)
       IN IF isDefined(otherParticipant) THEN otherParticipant.share ELSE 0
  ELSE IF expense.payer = otherUserId
  THEN LET currentParticipant == findParticipant(expense, currentUserId)
       IN IF isDefined(currentParticipant) THEN currentParticipant.share ELSE 0
  ELSE 0

calculatePairwiseBalanceFromExpense(expense, currentUserId, otherUserId) ==
  IF expense.payer = currentUserId
  THEN LET otherParticipant == findParticipant(expense, otherUserId)
       IN IF isDefined(otherParticipant) THEN otherParticipant.share ELSE 0
  ELSE IF expense.payer = otherUserId
  THEN LET currentParticipant == findParticipant(expense, currentUserId)
       IN IF isDefined(currentParticipant) THEN -currentParticipant.share ELSE 0
  ELSE 0

\* Ids of a collection that satisfy a query, newest first (sort createdAt: -1).
newestFirst(n, Match(_)) ==
  LET RECURSIVE scan(_)
      scan(i) == IF i = 0 THEN <<>>
                 ELSE IF Match(i) THEN <<i>> \o scan(i - 1) ELSE scan(i - 1)
  IN scan(n)

\* Mutant: the query forgets the isDeleted: false filter.
getExpensesInvolvingUserIn_noFilter(exps, userId) ==
  LET match(i) == exps[i].payer = userId \/ isParticipant(exps[i], userId)
  IN newestFirst(Len(exps), match)

getExpensesInvolvingUserIn(exps, userId) ==
  LET match(i) == /\ exps[i].isDeleted = FALSE
                  /\ (exps[i].payer = userId \/ isParticipant(exps[i], userId))
  IN newestFirst(Len(exps), match)

getExpensesInvolvingUser(userId) == getExpensesInvolvingUserIn(expenses, userId)

\* perUserMap is a JavaScript Map: entries in insertion order, one per key.
mapHas(map, key) == \E i \in 1..Len(map) : map[i].user = key

mapAdd(map, key, delta) ==
  IF mapHas(map, key)
  THEN [i \in 1..Len(map) |->
          IF map[i].user = key
          THEN [user |-> key, balance |-> map[i].balance + delta]
          ELSE map[i]]
  ELSE Append(map, [user |-> key, balance |-> delta])

RECURSIVE addParticipantShares(_, _, _)
addParticipantShares(map, participants, userId) ==
  IF participants = <<>> THEN map
  ELSE LET p == Head(participants)
       IN addParticipantShares(
            IF p.user = userId THEN map ELSE mapAdd(map, p.user, p.share),
            Tail(participants), userId)

\* Mutant: each expense overwrites the running totals instead of adding to
\* them, so the result depends on which expense is folded last.
overallExpenseStep_lastWins(acc, expense, userId) ==
  [totalOwed |-> calculateOwedFromExpense(expense, userId),
   totalOwing |-> calculateOwingFromExpense(expense, userId),
   perUserMap |-> acc.perUserMap]

overallExpenseStep(acc, expense, userId) ==
  LET owed == calculateOwedFromExpense(expense, userId)
      owing == calculateOwingFromExpense(expense, userId)
      m1 == IF expense.payer = userId
            THEN addParticipantShares(acc.perUserMap, expense.participants, userId)
            ELSE acc.perUserMap
      userParticipant == findParticipant(expense, userId)
      m2 == IF expense.payer # userId /\ isDefined(userParticipant)
            THEN mapAdd(m1, expense.payer, -userParticipant.share)
            ELSE m1
  IN [totalOwed |-> acc.totalOwed + owed,
      totalOwing |-> acc.totalOwing + owing,
      perUserMap |-> m2]

\* Mutant: a payment received is booked against totalOwing instead of totalOwed.
overallTransactionStep_wrongTotal(acc, transaction, userId) ==
  IF transaction.from = userId
  THEN [totalOwed |-> acc.totalOwed,
        totalOwing |-> acc.totalOwing - transaction.amount,
        perUserMap |-> mapAdd(acc.perUserMap, transaction.to, transaction.amount)]
  ELSE [totalOwed |-> acc.totalOwed,
        totalOwing |-> acc.totalOwing - transaction.amount,
        perUserMap |-> mapAdd(acc.perUserMap, transaction.from, -transaction.amount)]

overallTransactionStep(acc, transaction, userId) ==
  IF transaction.from = userId
  THEN [totalOwed |-> acc.totalOwed,
        totalOwing |-> acc.totalOwing - transaction.amount,
        perUserMap |-> mapAdd(acc.perUserMap, transaction.to, transaction.amount)]
  ELSE [totalOwed |-> acc.totalOwed - transaction.amount,
        totalOwing |-> acc.totalOwing,
        perUserMap |-> mapAdd(acc.perUserMap, transaction.from, -transaction.amount)]

\* Array.prototype.sort((a, b) => b.balance - a.balance): stable, descending.
RECURSIVE insertByBalance(_, _)
insertByBalance(sorted, e) ==
  IF sorted = <<>> THEN <<e>>
  ELSE IF Head(sorted).balance >= e.balance
       THEN <<Head(sorted)>> \o insertByBalance(Tail(sorted), e)
       ELSE <<e>> \o sorted

RECURSIVE sortByBalance(_)
sortByBalance(entries) ==
  IF entries = <<>> THEN <<>>
  ELSE insertByBalance(sortByBalance(SubSeq(entries, 1, Len(entries) - 1)),
                       entries[Len(entries)])

\* Mutant: counterparties whose balance is zero are kept in the breakdown.
formatPerUser_keepsSettled(perUserMap) ==
  sortByBalance([i \in 1..Len(perUserMap) |->
                   [user |-> perUserMap[i].user,
                    balance |-> perUserMap[i].balance,
                    balanceInRupees |-> paiseToRupees(perUserMap[i].balance),
                    status |-> statusOf(perUserMap[i].balance)]])

formatPerUser(perUserMap) ==
  LET formatted == [i \in 1..Len(perUserMap) |->
                      [user |-> perUserMap[i].user,
                       balance |-> perUserMap[i].balance,
                       balanceInRupees |-> paiseToRupees(perUserMap[i].balance),
                       status |-> statusOf(perUserMap[i].balance)]]
      nonZero(e) == e.balance # 0
  IN sortByBalance(SelectSeq(formatted, nonZero))

calculateOverallBalanceIn(exps, txns, userId) ==
  LET expenseIds == getExpensesInvolvingUserIn(exps, userId)
      RECURSIVE foldExpenses(_, _)
      foldExpenses(acc, ids) ==
        IF ids = <<>> THEN acc
        ELSE foldExpenses(overallExpenseStep(acc, exps[Head(ids)], userId), Tail(ids))
      matchTxn(i) == txns[i].from = userId \/ txns[i].to = userId
      transactionIds == newestFirst(Len(txns), matchTxn)
      RECURSIVE foldTransactions(_, _)
      foldTransactions(acc, ids) ==
        IF ids = <<>> THEN acc
        ELSE foldTransactions(overallTransactionStep(acc, txns[Head(ids)], userId), Tail(ids))
      afterExpenses == foldExpenses([totalOwed |-> 0, totalOwing |-> 0, perUserMap |-> <<>>],
                                    expenseIds)
      final == foldTransactions(afterExpenses, transactionIds)
      netBalance == final.totalOwed - final.totalOwing
  IN [totalOwed |-> final.totalOwed,
      totalOwedInRupees |-> paiseToRupees(final.totalOwed),
      totalOwing |-> final.totalOwing,
      totalOwingInRupees |-> paiseToRupees(final.totalOwing),
      netBalance |-> netBalance,
      netBalanceInRupees |-> paiseToRupees(netBalance),
      perUser |-> formatPerUser(final.perUserMap)]

calculateOverallBalance(userId) == calculateOverallBalanceIn(expenses, transactions, userId)

calculatePairwiseBalanceIn(exps, txns, currentUserId, otherUserId) ==
  LET matchExp(i) ==
        /\ exps[i].isDeleted = FALSE
        /\ \/ exps[i].payer = currentUserId /\ isParticipant(exps[i], otherUserId)
           \/ exps[i].payer = otherUserId /\ isParticipant(exps[i], currentUserId)
      expenseIds == newestFirst(Len(exps), matchExp)
      balanceOf(i) == calculatePairwiseBalanceFromExpense(exps[i], currentUserId, otherUserId)
      expenseDetails == [k \in 1..Len(expenseIds) |->
          LET balance == balanceOf(expenseIds[k])
          IN [id |-> expenseIds[k],
              amount |-> exps[expenseIds[k]].amount,
              yourShare |-> IF balance < 0 THEN -balance ELSE 0,
              theirShare |-> IF balance > 0 THEN balance ELSE 0]]
      RECURSIVE sumExpenses(_)
      sumExpenses(ids) == IF ids = <<>> THEN 0
                          ELSE balanceOf(Head(ids)) + sumExpenses(Tail(ids))
      matchTxn(i) ==
        \/ txns[i].from = currentUserId /\ txns[i].to = otherUserId
        \/ txns[i].from = otherUserId /\ txns[i].to = currentUserId
      transactionIds == newestFirst(Len(txns), matchTxn)
      balanceChange(i) == IF txns[i].from = currentUserId
                          THEN txns[i].amount ELSE -txns[i].amount
      RECURSIVE sumTransactions(_)
      sumTransactions(ids) == IF ids = <<>> THEN 0
                              ELSE balanceChange(Head(ids)) + sumTransactions(Tail(ids))
      transactionDetails == [k \in 1..Len(transactionIds) |->
          [id |-> transactionIds[k],
           amount |-> txns[transactionIds[k]].amount,
           direction |-> IF txns[transactionIds[k]].from = currentUserId
                         THEN "you_paid" ELSE "they_paid"]]
      totalBalance == sumExpenses(expenseIds) + sumTransactions(transactionIds)
  IN [balance |-> totalBalance,
      balanceInRupees |-> paiseToRupees(totalBalance),
      status |-> statusOf(totalBalance),
      expenses |-> expenseDetails,
      transactions |-> transactionDetails]

calculatePairwiseBalance(currentUserId, otherUserId) ==
  calculatePairwiseBalanceIn(expenses, transactions, currentUserId, otherUserId)

\* ------------------------------------------------------ expense validation
validatePayerExists(payerId) == [valid |-> userExists(payerId)]

\* Mutant: the duplicate check never reports a duplicate.
validateNoDuplicateParticipants_off(participants) ==
  [valid |-> TRUE, duplicates |-> {}]

validateNoDuplicateParticipants(participants) ==
  LET duplicates == {participants[i].user : i \in
                       {k \in 1..Len(participants) :
                          \E j \in 1..(k - 1) : participants[j].user = participants[k].user}}
  IN [valid |-> Cardinality({participants[i].user : i \in 1..Len(participants)})
                  = Len(participants),
      duplicates |-> duplicates]

validateParticipantsExist(participants) ==
  LET userIds == {participants[i].user : i \in 1..Len(participants)}
      invalidIds == {id \in userIds : ~userExists(id)}
  IN [valid |-> invalidIds = {}, invalidIds |-> invalidIds]

validatePositiveShares(participants) ==
  LET invalidParticipants == {i \in 1..Len(participants) : participants[i].share < 0}
  IN [valid |-> invalidParticipants = {}, invalidParticipants |-> invalidParticipants]

\* Mutant: the tolerance comparison is >= 1 instead of > 1.
validateSharesSum_strict(totalAmount, participants) ==
  LET totalShares == sumShares(participants)
      difference == abs(totalShares - totalAmount)
  IN [valid |-> ~(difference >= 1),
      totalShares |-> totalShares,
      difference |-> difference]

validateSharesSum(totalAmount, participants) ==
  LET totalShares == sumShares(participants)
      difference == abs(totalShares - totalAmount)
  IN [valid |-> ~(difference > 1),
      totalShares |-> totalShares,
      difference |-> difference]

\* Mutant: fail-fast, the result carries only the first violated rule.
validateExpenseCreation_failFast(expenseData) ==
  LET amount == expenseData.amount
      payer == expenseData.payer
      participants == expenseData.participants
      sum == validateSharesSum(amount, participants)
      errors ==
        IF ~validatePayerExists(payer).valid
        THEN <<[field |-> "payer", rule |-> "payerExists"]>>
        ELSE IF ~validateNoDuplicateParticipants(participants).valid
        THEN <<[field |-> "participants", rule |-> "noDuplicates"]>>
        ELSE IF ~validateParticipantsExist(participants).valid
        THEN <<[field |-> "participants", rule |-> "participantsExist"]>>
        ELSE IF ~validatePositiveShares(participants).valid
        THEN <<[field |-> "participants", rule |-> "positiveShares"]>>
        ELSE IF ~sum.valid
        THEN <<[field |-> "amount", rule |-> "sharesSum",
                totalShares |-> sum.totalShares, difference |-> sum.difference]>>
        ELSE <<>>
  IN [valid |-> Len(errors) = 0, errors |-> errors]

\* The errors array, in the order the five rules are evaluated.
validateExpenseCreation(expenseData) ==
  LET amount == expenseData.amount
      payer == expenseData.payer
      participants == expenseData.participants
      e1 == IF validatePayerExists(payer).valid THEN <<>>
            ELSE <<[field |-> "payer", rule |-> "payerExists"]>>
      e2 == IF validateNoDuplicateParticipants(participants).valid THEN <<>>
            ELSE <<[field |-> "participants", rule |-> "noDuplicates"]>>
      e3 == IF validateParticipantsExist(participants).valid THEN <<>>
            ELSE <<[field |-> "participants", rule |-> "participantsExist"]>>
      e4 == IF validatePositiveShares(participants).valid THEN <<>>
            ELSE <<[field |-> "participants", rule |-> "positiveShares"]>>
      e5 == IF validateSharesSum(amount, participants).valid THEN <<>>
            ELSE <<[field |-> "amount", rule |-> "sharesSum",
                    totalShares |-> validateSharesSum(amount, participants).totalShares,
                    difference |-> validateSharesSum(amount, participants).difference]>>
      errors == e1 \o e2 \o e3 \o e4 \o e5
  IN [valid |-> Len(errors) = 0, errors |-> errors]

\* -------------------------------------------------- transaction validation
validateUsersExist(fromUserId, toUserId) ==
  [valid |-> userExists(fromUserId) /\ userExists(toUserId)]

validateDifferentUsers(fromUserId, toUserId) == [valid |-> fromUserId # toUserId]

\* amount is the request's amount, still in rupees
validatePositiveAmount(amount) == [valid |-> ~(amount = 0 \/ amount <= 0)]

validateTransactionCreation(transactionData) ==
  LET e1 == IF validateDifferentUsers(transactionData.from, transactionData.to).valid
            THEN <<>> ELSE <<[field |-> "users", rule |-> "differentUsers"]>>
      e2 == IF validatePositiveAmount(transactionData.amount).valid
            THEN <<>> ELSE <<[field |-> "amount", rule |-> "positiveAmount"]>>
      e3 == IF validateUsersExist(transactionData.from, transactionData.to).valid
            THEN <<>> ELSE <<[field |-> "users", rule |-> "usersExist"]>>
      errors == e1 \o e2 \o e3
  IN [valid |-> Len(errors) = 0, errors |-> errors]

\* ------------------------------------------------------- request validators
\* express-validator chains of the routes; a request they reject never
\* reaches the controller.
participantsShapeOk(participants) ==
  /\ Len(participants) >= 1
  /\ \A i \in 1..Len(participants) : participants[i].share >= 0

createExpenseValidation(body) ==
  /\ body.title # ""
  /\ body.amount >= 10
  /\ participantsShapeOk(body.participants)
  /\ body.splitMethod \in SplitMethods

updateExpenseValidation(body) ==
  /\ "title" \in DOMAIN body => body.title # ""
  /\ "amount" \in DOMAIN body => body.amount >= 10
  /\ "participants" \in DOMAIN body => participantsShapeOk(body.participants)
  /\ "splitMethod" \in DOMAIN body => body.splitMethod \in SplitMethods

validateCreateTransaction(body) ==
  /\ body.to # ""
  /\ body.amount >= 10

\* ------------------------------------------------------- mongoose documents
\* Schema validators of the Expense model, run by save() before the hooks.
expenseSchemaValid(doc) ==
  /\ doc.title # ""
  /\ doc.amount >= 1
  /\ Len(doc.participants) > 0
  /\ \A i \in 1..Len(doc.participants) : doc.participants[i].share >= 0
  /\ doc.splitMethod \in SplitMethods

\* expenseSchema.pre('save'): FALSE when the hook passes an error to next().
expensePreSave(doc, participantsModified, amountModified) ==
  IF ~participantsModified /\ ~amountModified THEN TRUE
  ELSE ~(abs(sumShares(doc.participants) - doc.amount) > 1)

transactionSchemaValid(doc) == doc.amount >= 1

transactionPreSave(doc) == doc.from # doc.to

toPaise(participants) ==
  [i \in 1..Len(participants) |->
     [user |-> participants[i].user, share |-> rupeesToPaise(participants[i].share)]]

\* Balances of every user and every ordered pair, as the two read endpoints
\* return them.
allBalances ==
  [overall |-> [u \in Users |-> calculateOverallBalance(u)],
   pairwise |-> [p \in {q \in Users \X Users : q[1] # q[2]} |->
                   calculatePairwiseBalance(p[1], p[2])]]

NoSnapshot == [id |-> 0, restored |-> FALSE]

NotRun == [done |-> FALSE]

NoRequests == <<>>

NoInput == [amount |-> 0, payer |-> None, participants |-> <<>>]

\* ------------------------------------------------------------- operations
\* POST /api/expenses, with the collection capped at limit documents.
createExpenseWithin(limit, actor, body) ==
  /\ Len(expenses) < limit
  /\ LET amountInPaise == rupeesToPaise(body.amount)
         participantsInPaise == toPaise(body.participants)
         validation == validateExpenseCreation([amount |-> amountInPaise,
                                                payer |-> body.payer,
                                                participants |-> participantsInPaise])
         expense == [title |-> body.title,
                     amount |-> amountInPaise,
                     payer |-> body.payer,
                     participants |-> participantsInPaise,
                     splitMethod |-> body.splitMethod,
                     isDeleted |-> FALSE,
                     deletedBy |-> None,
                     deletedAt |-> None,
                     deletedReason |-> None,
                     createdBy |-> actor]
     IN IF /\ createExpenseValidation(body)
           /\ validation.valid
           /\ expenseSchemaValid(expense)
           /\ expensePreSave(expense, TRUE, TRUE)
        THEN /\ expenses' = Append(expenses, expense)
             /\ UNCHANGED transactions
        ELSE UNCHANGED store

createExpense(actor, body) == createExpenseWithin(MaxExpenses, actor, body)

\* Mutant: the handler without its authorization check.
deleteExpense_noAuth(actor, id, body) ==
  IF id \notin 1..Len(expenses) THEN UNCHANGED store
  ELSE IF expenses[id].isDeleted THEN UNCHANGED store
  ELSE /\ expenses' = [expenses EXCEPT ![id] =
                         [@ EXCEPT !.isDeleted = TRUE,
                                   !.deletedBy = actor,
                                   !.deletedAt = "date",
                                   !.deletedReason = IF "reason" \in DOMAIN body /\ body.reason # ""
                                                     THEN body.reason ELSE @]]
       /\ UNCHANGED transactions

\* Mutant: the handler deletes an expense that is already deleted once more.
deleteExpense_again(actor, id, body) ==
  IF id \notin 1..Len(expenses) THEN UNCHANGED store
  ELSE IF ~isParticipant(expenses[id], actor) /\ ~(expenses[id].payer = actor)
  THEN UNCHANGED store
  ELSE /\ expenses' = [expenses EXCEPT ![id] =
                         [@ EXCEPT !.isDeleted = TRUE,
                                   !.deletedBy = actor,
                                   !.deletedAt = "date",
                                   !.deletedReason = IF "reason" \in DOMAIN body /\ body.reason # ""
                                                     THEN body.reason ELSE @]]
       /\ UNCHANGED transactions

\* DELETE /api/expenses/:id
deleteExpense(actor, id, body) ==
  IF id \notin 1..Len(expenses) THEN UNCHANGED store
  ELSE LET expense == expenses[id]
           deleted == [expense EXCEPT
                         !.isDeleted = TRUE,
                         !.deletedBy = actor,
                         !.deletedAt = "date",
                         !.deletedReason = IF "reason" \in DOMAIN body /\ body.reason # ""
                                           THEN body.reason ELSE @]
       IN IF expense.isDeleted THEN UNCHANGED store
          ELSE IF ~isParticipant(expense, actor) /\ ~(expense.payer = actor)
          THEN UNCHANGED store
          ELSE IF expenseSchemaValid(deleted) /\ expensePreSave(deleted, FALSE, FALSE)
          THEN /\ expenses' = [expenses EXCEPT ![id] = deleted]
               /\ UNCHANGED transactions
          ELSE UNCHANGED store

\* Mutant: restore is open to the payer and the participants, as delete is.
restoreExpense_anyoneInvolved(actor, id) ==
  IF id \notin 1..Len(expenses) THEN UNCHANGED store
  ELSE IF ~expenses[id].isDeleted THEN UNCHANGED store
  ELSE IF ~isParticipant(expenses[id], actor) /\ ~(expenses[id].payer = actor)
  THEN UNCHANGED store
  ELSE /\ expenses' = [expenses EXCEPT ![id] = [@ EXCEPT !.isDeleted = FALSE,
                                                         !.deletedBy = None,
                                                         !.deletedAt = None,
                                                         !.deletedReason = None]]
       /\ UNCHANGED transactions

\* Mutant: restore leaves the deletion reason in place.
restoreExpense_keepsReason(actor, id) ==
  IF id \notin 1..Len(expenses) THEN UNCHANGED store
  ELSE IF ~expenses[id].isDeleted THEN UNCHANGED store
  ELSE IF actor # expenses[id].createdBy /\ actor # expenses[id].deletedBy
  THEN UNCHANGED store
  ELSE /\ expenses' = [expenses EXCEPT ![id] = [@ EXCEPT !.isDeleted = FALSE,
                                                         !.deletedBy = None,
                                                         !.deletedAt = None]]
       /\ UNCHANGED transactions

\* Mutant: restore clears the audit fields but leaves the expense deleted.
restoreExpense_keepsFlag(actor, id) ==
  IF id \notin 1..Len(expenses) THEN UNCHANGED store
  ELSE IF ~expenses[id].isDeleted THEN UNCHANGED store
  ELSE IF actor # expenses[id].createdBy /\ actor # expenses[id].deletedBy
  THEN UNCHANGED store
  ELSE /\ expenses' = [expenses EXCEPT ![id] = [@ EXCEPT !.deletedBy = None,
                                                         !.deletedAt = None,
                                                         !.deletedReason = None]]
       /\ UNCHANGED transactions

\* POST /api/expenses/:id/restore
restoreExpense(actor, id) ==
  IF id \notin 1..Len(expenses) THEN UNCHANGED store
  ELSE LET expense == expenses[id]
           restored == [expense EXCEPT
                          !.isDeleted = FALSE,
                          !.deletedBy = None,
                          !.deletedAt = None,
                          !.deletedReason = None]
       IN IF ~expense.isDeleted THEN UNCHANGED store
          ELSE IF actor # expense.createdBy /\ actor # expense.deletedBy
          THEN UNCHANGED store
          ELSE IF expenseSchemaValid(restored) /\ expensePreSave(restored, FALSE, FALSE)
          THEN /\ expenses' = [expenses EXCEPT ![id] = restored]
                 /\ UNCHANGED transactions
          ELSE UNCHANGED store

\* Mutant: the edit is saved without validating the proposed state; only the
\* schema validators and the pre-save hook stand in the way.
updateExpense_noRevalidation(actor, id, body) ==
  IF ~updateExpenseValidation(body) THEN UNCHANGED store
  ELSE IF id \notin 1..Len(expenses) THEN UNCHANGED store
  ELSE LET expense == expenses[id]
           updated == [expense EXCEPT
                         !.title = IF "title" \in DOMAIN body THEN body.title ELSE @,
                         !.amount = IF "amount" \in DOMAIN body
                                    THEN rupeesToPaise(body.amount) ELSE @,
                         !.participants = IF "participants" \in DOMAIN body
                                          THEN toPaise(body.participants) ELSE @,
                         !.splitMethod = IF "splitMethod" \in DOMAIN body
                                         THEN body.splitMethod ELSE @]
       IN IF expense.isDeleted THEN UNCHANGED store
          ELSE IF ~isParticipant(expense, actor) /\ ~(expense.payer = actor)
          THEN UNCHANGED store
          ELSE IF /\ expenseSchemaValid(updated)
                  /\ expensePreSave(updated,
                                    updated.participants # expense.participants,
                                    updated.amount # expense.amount)
          THEN /\ expenses' = [expenses EXCEPT ![id] = updated]
               /\ UNCHANGED transactions
          ELSE UNCHANGED store

\* PATCH /api/expenses/:id
updateExpense(actor, id, body) ==
  IF ~updateExpenseValidation(body) THEN UNCHANGED store
  ELSE IF id \notin 1..Len(expenses) THEN UNCHANGED store
  ELSE LET expense == expenses[id]
           hasAmount == "amount" \in DOMAIN body
           hasParticipants == "participants" \in DOMAIN body
           amountToValidate == IF hasAmount THEN rupeesToPaise(body.amount)
                               ELSE expense.amount
           participantsToValidate == IF hasParticipants THEN toPaise(body.participants)
                                     ELSE expense.participants
           validation == validateExpenseCreation([amount |-> amountToValidate,
                                                  payer |-> expense.payer,
                                                  participants |-> participantsToValidate])
           updated == [expense EXCEPT
                         !.title = IF "title" \in DOMAIN body THEN body.title ELSE @,
                         !.amount = amountToValidate,
                         !.participants = participantsToValidate,
                         !.splitMethod = IF "splitMethod" \in DOMAIN body
                                         THEN body.splitMethod ELSE @]
       IN IF expense.isDeleted THEN UNCHANGED store
          ELSE IF ~isParticipant(expense, actor) /\ ~(expense.payer = actor)
          THEN UNCHANGED store
          ELSE IF (hasAmount \/ hasParticipants) /\ ~validation.valid
          THEN UNCHANGED store
          ELSE IF /\ expenseSchemaValid(updated)
                  /\ expensePreSave(updated,
                                    updated.participants # expense.participants,
                                    updated.amount # expense.amount)
          THEN /\ expenses' = [expenses EXCEPT ![id] = updated]
                 /\ UNCHANGED transactions
          ELSE UNCHANGED store

\* Mutant: a payment between two users who already have a settlement is added
\* to that settlement instead of being stored as a new one.
createTransaction_upsert(actor, body) ==
  LET amountInPaise == rupeesToPaise(body.amount)
      same == {k \in 1..Len(transactions) :
                 transactions[k].from = actor /\ transactions[k].to = body.to}
  IN IF ~validateCreateTransaction(body) \/ actor = body.to \/ amountInPaise < 1
     THEN UNCHANGED store
     ELSE IF same # {}
     THEN /\ transactions' = [k \in 1..Len(transactions) |->
                                IF k \in same
                                THEN [transactions[k] EXCEPT !.amount = @ + amountInPaise]
                                ELSE transactions[k]]
          /\ UNCHANGED expenses
     ELSE /\ Len(transactions) < MaxTransactions
          /\ transactions' = Append(transactions,
                                    [from |-> actor, to |-> body.to,
                                     amount |-> amountInPaise, note |-> None,
                                     createdBy |-> actor])
          /\ UNCHANGED expenses

\* Mutant: a payment larger than what the payer owes the receiver is refused.
createTransaction_debtCapped(actor, body) ==
  /\ Len(transactions) < MaxTransactions
  /\ LET amountInPaise == rupeesToPaise(body.amount)
         debt == 0 - calculatePairwiseBalance(actor, body.to).balance
     IN IF \/ ~validateCreateTransaction(body)
           \/ actor = body.to
           \/ amountInPaise < 1
           \/ amountInPaise > debt
        THEN UNCHANGED store
        ELSE /\ transactions' = Append(transactions,
                                       [from |-> actor, to |-> body.to,
                                        amount |-> amountInPaise, note |-> None,
                                        createdBy |-> actor])
             /\ UNCHANGED expenses

\* Mutant: the handler lets the caller record a payment between two others.
createTransaction_thirdParty(actor, body) ==
  /\ Len(transactions) < MaxTransactions
  /\ LET providedFrom == IF "from" \in DOMAIN body THEN body.from ELSE ""
         from == IF providedFrom # "" THEN providedFrom ELSE actor
         validation == validateTransactionCreation([from |-> from,
                                                    to |-> body.to,
                                                    amount |-> body.amount])
     IN IF ~validateCreateTransaction(body) \/ ~validation.valid
           \/ rupeesToPaise(body.amount) < 1
        THEN UNCHANGED store
        ELSE /\ transactions' = Append(transactions,
                                       [from |-> from, to |-> body.to,
                                        amount |-> rupeesToPaise(body.amount),
                                        note |-> None, createdBy |-> actor])
             /\ UNCHANGED expenses

\* POST /api/transactions
createTransaction(actor, body) ==
  /\ Len(transactions) < MaxTransactions
  /\ LET providedFrom == IF "from" \in DOMAIN body THEN body.from ELSE ""
         from == IF providedFrom # "" THEN providedFrom ELSE actor
         validation == validateTransactionCreation([from |-> from,
                                                    to |-> body.to,
                                                    amount |-> body.amount])
         transaction == [from |-> from,
                         to |-> body.to,
                         amount |-> rupeesToPaise(body.amount),
                         note |-> IF "note" \in DOMAIN body THEN body.note ELSE None,
                         createdBy |-> actor]
     IN IF ~validateCreateTransaction(body) THEN UNCHANGED store
        ELSE IF providedFrom # "" /\ providedFrom # actor /\ body.to # actor
        THEN UNCHANGED store
        ELSE IF ~validation.valid THEN UNCHANGED store
        ELSE IF transactionSchemaValid(transaction) /\ transactionPreSave(transaction)
        THEN /\ transactions' = Append(transactions, transaction)
             /\ UNCHANGED expenses
        ELSE UNCHANGED store

\* ---------------------------------------------------------------- responses
\* The HTTP status and message each expense handler answers with, in the
\* order the handler and the error handler decide them.
respond(status, message) == [status |-> status, message |-> message]

saveResponse(doc, participantsModified, amountModified, success) ==
  IF ~expenseSchemaValid(doc) THEN respond(400, "Validation failed")
  ELSE IF ~expensePreSave(doc, participantsModified, amountModified)
  THEN respond(500, "Something went wrong on the server")
  ELSE success

createExpenseResponse(actor, body) ==
  LET amountInPaise == rupeesToPaise(body.amount)
      participantsInPaise == toPaise(body.participants)
      validation == validateExpenseCreation([amount |-> amountInPaise,
                                             payer |-> body.payer,
                                             participants |-> participantsInPaise])
  IN IF ~createExpenseValidation(body) THEN respond(400, "Validation failed")
     ELSE IF ~validation.valid THEN respond(400, "Expense validation failed")
     ELSE saveResponse([title |-> body.title, amount |-> amountInPaise,
                        participants |-> participantsInPaise,
                        splitMethod |-> body.splitMethod],
                       TRUE, TRUE,
                       respond(201, "Expense created successfully"))

deleteExpenseResponse(actor, id, body) ==
  IF id \notin 1..Len(expenses) THEN respond(404, "Expense not found")
  ELSE IF expenses[id].isDeleted
  THEN respond(400, "This expense has already been deleted")
  ELSE IF ~isParticipant(expenses[id], actor) /\ ~(expenses[id].payer = actor)
  THEN respond(403, "Only participants can delete this expense")
  ELSE saveResponse(expenses[id], FALSE, FALSE,
                    respond(200, "Expense deleted successfully"))

restoreExpenseResponse(actor, id) ==
  IF id \notin 1..Len(expenses) THEN respond(404, "Expense not found")
  ELSE IF ~expenses[id].isDeleted
  THEN respond(400, "This expense is not deleted and cannot be restored")
  ELSE IF actor # expenses[id].createdBy /\ actor # expenses[id].deletedBy
  THEN respond(403, "Only the creator or the person who deleted this expense can restore it")
  \* After the save the handler calls createExpenseRestoreActivity, which the
  \* activity service does not export: the call throws, the handler's catch
  \* passes the TypeError on, and the error handler answers 500.
  ELSE saveResponse(expenses[id], FALSE, FALSE,
                    respond(500, "Something went wrong on the server"))

updateExpenseResponse(actor, id, body) ==
  IF ~updateExpenseValidation(body) THEN respond(400, "Validation failed")
  ELSE IF id \notin 1..Len(expenses) THEN respond(404, "Expense not found")
  ELSE LET expense == expenses[id]
           hasAmount == "amount" \in DOMAIN body
           hasParticipants == "participants" \in DOMAIN body
           amountToValidate == IF hasAmount THEN rupeesToPaise(body.amount)
                               ELSE expense.amount
           participantsToValidate == IF hasParticipants THEN toPaise(body.participants)
                                     ELSE expense.participants
           validation == validateExpenseCreation([amount |-> amountToValidate,
                                                  payer |-> expense.payer,
                                                  participants |-> participantsToValidate])
           updated == [expense EXCEPT
                         !.title = IF "title" \in DOMAIN body THEN body.title ELSE @,
                         !.amount = amountToValidate,
                         !.participants = participantsToValidate,
                         !.splitMethod = IF "splitMethod" \in DOMAIN body
                                         THEN body.splitMethod ELSE @]
       IN IF expense.isDeleted
          THEN respond(400, "This expense has been deleted. Please restore it first to edit.")
          ELSE IF ~isParticipant(expense, actor) /\ ~(expense.payer = actor)
          THEN respond(403, "Only participants can edit this expense")
          ELSE IF (hasAmount \/ hasParticipants) /\ ~validation.valid
          THEN respond(400, "Expense validation failed")
          ELSE saveResponse(updated,
                            updated.participants # expense.participants,
                            updated.amount # expense.amount,
                            respond(200, "Expense updated successfully"))

createTransactionResponse(actor, body) ==
  LET providedFrom == IF "from" \in DOMAIN body THEN body.from ELSE ""
      from == IF providedFrom # "" THEN providedFrom ELSE actor
      validation == validateTransactionCreation([from |-> from,
                                                 to |-> body.to,
                                                 amount |-> body.amount])
  IN IF ~validateCreateTransaction(body) THEN respond(400, "Validation failed")
     ELSE IF providedFrom # "" /\ providedFrom # actor /\ body.to # actor
     THEN respond(400, "Invalid transaction")
     ELSE IF ~validation.valid THEN respond(400, "Validation failed")
     ELSE IF ~transactionSchemaValid([amount |-> rupeesToPaise(body.amount)])
     THEN respond(400, "Validation failed")
     ELSE IF ~transactionPreSave([from |-> from, to |-> body.to])
     THEN respond(500, "Something went wrong on the server")
     ELSE respond(201, "Transaction created successfully")

\* ------------------------------------------------------ ledger specification
\* Requests of the ledger specification.  Rupee amounts: 4 = 0.004 (rounds to
\* 0 paise), 10 = 0.01, 20 = 0.02, 30 = 0.03.
Titles == {"dinner"}

AmountInputs == {20, 30}

PayerInputs == {"alice", "charlie"}

P(user, share) == [user |-> user, share |-> share]

\* Two well-formed lists: shares summing to 2 paise and to 3 paise.
ParticipantInputs ==
  { <<P("alice", 10), P("bob", 10)>>,
    <<P("alice", 10), P("bob", 10), P("charlie", 10)>> }

\* One list for each way a list is refused: empty, a user twice, an unknown
\* user, a negative share, shares of 5 paise and of 0 paise (2 paise or more
\* away from every amount above).
BadParticipantInputs ==
  { <<>>,
    <<P("bob", 10), P("bob", 10)>>,
    <<P(GhostId, 20)>>,
    <<P("bob", -10), P("alice", 30)>>,
    <<P("alice", 20), P("bob", 30)>>,
    <<P("bob", 4)>> }

ExpenseCreators == {"alice"}

ExpenseBodies ==
  [title : Titles, amount : AmountInputs, payer : PayerInputs,
   participants : ParticipantInputs, splitMethod : {"equal"}]
    \cup [title : Titles, amount : {20}, payer : {"alice"},
          participants : BadParticipantInputs, splitMethod : {"equal"}]
    \cup [title : Titles, amount : {4, 20}, payer : {GhostId, "alice"},
          participants : {<<P("alice", 10), P("bob", 10)>>}, splitMethod : {"equal"}]

UpdateActors == {"bob", "charlie"}

UpdateBodies ==
  [amount : AmountInputs \cup {4}]
    \cup [participants : ParticipantInputs \cup BadParticipantInputs]
    \cup [amount : {30}, participants : ParticipantInputs]
    \cup [title : Titles \cup {""}]

DeleteActors == {"charlie"}

DeleteBodies == {[reason |-> ""]}

TransactionAmountInputs == {4, 10}

TransactionBodies == [to : Users, amount : TransactionAmountInputs]

TransactionActors == {"bob", "charlie"}

ExpenseIds == 1..MaxExpenses

Init ==
  /\ expenses = <<>>
  /\ transactions = <<>>
  /\ preDelete = NoSnapshot
  /\ input = NoInput
  /\ result = NotRun
  /\ requests = NoRequests
  /\ activities = <<>>
  /\ friends = <<>>
  /\ tasks = <<>>

CreateExpense == \E actor \in ExpenseCreators, body \in ExpenseBodies :
                   createExpense(actor, body) /\ UNCHANGED others

UpdateExpense == \E actor \in UpdateActors, id \in ExpenseIds, body \in UpdateBodies :
                   updateExpense(actor, id, body) /\ UNCHANGED others

DeleteExpense == \E actor \in DeleteActors, id \in ExpenseIds, body \in DeleteBodies :
                   deleteExpense(actor, id, body) /\ UNCHANGED others

RestoreExpense == \E actor \in Users, id \in ExpenseIds :
                    restoreExpense(actor, id) /\ UNCHANGED others

CreateTransaction == \E actor \in TransactionActors, body \in TransactionBodies :
                       createTransaction(actor, body) /\ UNCHANGED others

Next ==
  \/ CreateExpense
  \/ UpdateExpense
  \/ DeleteExpense
  \/ RestoreExpense
  \/ CreateTransaction

Spec == Init /\ [][Next]_vars

\* ======================================================================
\* ------------------------------------------------ round-trip specification
\* The ledger with a record of the last soft delete: the balances every read
\* endpoint returned just before it, and whether the same expense has been
\* restored since with no other write in between.
RoundTripCreateBodies ==
  [title : Titles, amount : AmountInputs, payer : PayerInputs,
   participants : ParticipantInputs, splitMethod : {"equal"}]

RoundTripUpdateBodies == [amount : AmountInputs]

RoundTripTransactionBodies == [to : {"alice"}, amount : {10}]

written == expenses' # expenses \/ transactions' # transactions

forget == preDelete' = IF written THEN NoSnapshot ELSE preDelete

RoundTripInit == Init

RoundTripCreateExpense ==
  \E actor \in ExpenseCreators, body \in RoundTripCreateBodies :
    createExpense(actor, body) /\ forget /\ UNCHANGED <<input, result, requests, feeds>>

RoundTripUpdateExpense ==
  \E actor \in UpdateActors, id \in ExpenseIds, body \in RoundTripUpdateBodies :
    updateExpense(actor, id, body) /\ forget /\ UNCHANGED <<input, result, requests, feeds>>

RoundTripCreateTransaction ==
  \E actor \in Users, body \in RoundTripTransactionBodies :
    createTransaction(actor, body) /\ forget /\ UNCHANGED <<input, result, requests, feeds>>

RoundTripDeleteExpense ==
  \E actor \in DeleteActors, id \in ExpenseIds, body \in DeleteBodies :
    /\ deleteExpense(actor, id, body)
    /\ preDelete' = IF written
                    THEN [id |-> id, restored |-> FALSE, balances |-> allBalances]
                    ELSE preDelete
    /\ UNCHANGED <<input, result, requests, feeds>>

RoundTripRestoreExpense ==
  \E actor \in Users, id \in ExpenseIds :
    /\ restoreExpense(actor, id)
    /\ preDelete' = IF ~written THEN preDelete
                    ELSE IF preDelete.id = id /\ ~preDelete.restored
                    THEN [preDelete EXCEPT !.restored = TRUE]
                    ELSE NoSnapshot
    /\ UNCHANGED <<input, result, requests, feeds>>

RoundTripNext ==
  \/ RoundTripCreateExpense
  \/ RoundTripUpdateExpense
  \/ RoundTripCreateTransaction
  \/ RoundTripDeleteExpense
  \/ RoundTripRestoreExpense

SpecRoundTrip == RoundTripInit /\ [][RoundTripNext]_vars

\* ------------------------------------------------ validation specification
\* The share-sum rule as a function of its arguments: an expense payload in
\* paise is drawn in the initial state, and each action applies one of the
\* three places that evaluate the rule to it.
ValidateEntries == [user : {"alice", "bob"}, share : 0..MaxShare]

ValidateInputs ==
  [amount : 1..MaxTotal,
   payer : {"alice"},
   participants : UNION {[1..n -> ValidateEntries] : n \in 1..MaxParticipants}]

ValidateInit ==
  /\ expenses = <<>>
  /\ transactions = <<>>
  /\ preDelete = NoSnapshot
  /\ input \in ValidateInputs
  /\ result = NotRun
  /\ requests = NoRequests
  /\ activities = <<>>
  /\ friends = <<>>
  /\ tasks = <<>>

RunValidateSharesSum ==
  /\ ~result.done
  /\ result' = [done |-> TRUE, call |-> "validateSharesSum",
                value |-> validateSharesSum(input.amount, input.participants)]
  /\ UNCHANGED <<expenses, transactions, preDelete, input, requests, feeds>>

RunValidateExpenseCreation ==
  /\ ~result.done
  /\ result' = [done |-> TRUE, call |-> "validateExpenseCreation",
                value |-> validateExpenseCreation(input)]
  /\ UNCHANGED <<expenses, transactions, preDelete, input, requests, feeds>>

RunPreSave ==
  /\ ~result.done
  /\ result' = [done |-> TRUE, call |-> "preSave",
                value |-> [valid |-> expensePreSave(input, TRUE, TRUE)]]
  /\ UNCHANGED <<expenses, transactions, preDelete, input, requests, feeds>>

ValidateNext ==
  \/ RunValidateSharesSum
  \/ RunValidateExpenseCreation
  \/ RunPreSave

SpecValidate == ValidateInit /\ [][ValidateNext]_vars

\* -------------------------------------------------- scenario specification
\* The ledger driven by the requests of the documented settle-up walk-through:
\* expenses of 3.00 split 1.00/1.00/1.00 among Alice, Bob and Charlie, paid by
\* any of them, and settlements of 1.00 between any two of them.
ScenarioExpenseBodies ==
  [title : Titles, amount : {3000}, payer : Users,
   participants : {<<P("alice", 1000), P("bob", 1000), P("charlie", 1000)>>},
   splitMethod : {"equal"}]

ScenarioTransactionBodies == [to : Users, amount : {1000}]

ScenarioInit == Init

ScenarioCreateExpense ==
  \E actor \in ExpenseCreators, body \in ScenarioExpenseBodies :
    createExpense(actor, body) /\ UNCHANGED others

ScenarioDeleteExpense ==
  \E actor \in DeleteActors, id \in ExpenseIds, body \in DeleteBodies :
    deleteExpense(actor, id, body) /\ UNCHANGED others

ScenarioCreateTransaction ==
  \E actor \in Users, body \in ScenarioTransactionBodies :
    createTransaction(actor, body) /\ UNCHANGED others

ScenarioNext ==
  \/ ScenarioCreateExpense
  \/ ScenarioDeleteExpense
  \/ ScenarioCreateTransaction

SpecScenario == ScenarioInit /\ [][ScenarioNext]_vars

\* ----------------------------------------------------- chain specification
\* The ledger driven by the three expenses of the documented balance
\* walk-through, each created by its payer: Alice pays 3.00 split three ways,
\* Bob pays 6.00 split three ways, Charlie pays 1.50 split between Bob and
\* Charlie.
ChainExpenseBodies ==
  { [title |-> "dinner", amount |-> 3000, payer |-> "alice",
     participants |-> <<P("alice", 1000), P("bob", 1000), P("charlie", 1000)>>,
     splitMethod |-> "equal"],
    [title |-> "movie", amount |-> 6000, payer |-> "bob",
     participants |-> <<P("alice", 2000), P("bob", 2000), P("charlie", 2000)>>,
     splitMethod |-> "equal"],
    [title |-> "coffee", amount |-> 1500, payer |-> "charlie",
     participants |-> <<P("bob", 750), P("charlie", 750)>>,
     splitMethod |-> "equal"] }

ChainExpenseIds == 1..MaxChainExpenses

ChainInit == Init

ChainCreateExpense ==
  \E body \in ChainExpenseBodies :
    createExpenseWithin(MaxChainExpenses, body.payer, body) /\ UNCHANGED others

ChainDeleteExpense ==
  \E actor \in DeleteActors, id \in ChainExpenseIds, body \in DeleteBodies :
    deleteExpense(actor, id, body) /\ UNCHANGED others

ChainNext ==
  \/ ChainCreateExpense
  \/ ChainDeleteExpense

SpecChain == ChainInit /\ [][ChainNext]_vars

\* ------------------------------------------------ collect-all specification
\* validateExpenseCreation as a function of its argument, over payloads that
\* can break any subset of its five rules: an unknown payer, unknown or
\* repeated participants, negative shares, shares off the total.
CollectEntries == [user : {"alice", "bob", GhostId}, share : (0 - 1)..MaxShare]

CollectInputs ==
  [amount : 1..MaxTotal,
   payer : {"alice", GhostId},
   participants : UNION {[1..n -> CollectEntries] : n \in 1..MaxParticipants}]

CollectInit ==
  /\ expenses = <<>>
  /\ transactions = <<>>
  /\ preDelete = NoSnapshot
  /\ input \in CollectInputs
  /\ result = NotRun
  /\ requests = NoRequests
  /\ activities = <<>>
  /\ friends = <<>>
  /\ tasks = <<>>

CollectNext == RunValidateExpenseCreation

SpecCollect == CollectInit /\ [][CollectNext]_vars

\* --------------------------------------------------- request specification
\* The expense routes with the last request and its response on record:
\* input is the request, result the status and message answered.
LoggedCreators == {"alice", "charlie"}

LoggedCreateBodies ==
  [title : Titles, amount : {20}, payer : {"alice"},
   participants : {<<P("alice", 10), P("bob", 10)>>}, splitMethod : {"equal"}]

\* Amounts of 3 paise (within tolerance of shares of 2), 5 paise (3 off) and
\* 0.004 (refused by the route); participant lists of 1 paise, with a user
\* twice, with an unknown user; a three-way list together with its amount; an
\* empty title; another split method.
LoggedUpdateBodies ==
  [amount : {30, 50, 4}]
    \cup [participants : {<<P("alice", 10)>>,
                          <<P("bob", 10), P("bob", 10)>>,
                          <<P(GhostId, 20)>>}]
    \cup [amount : {30},
          participants : {<<P("alice", 10), P("bob", 10), P("charlie", 10)>>}]
    \cup [title : {""}]
    \cup [splitMethod : {"unequal"}]

LoggedDeleteBodies == {[reason |-> "duplicate"]}

LoggedExpenseIds == 1..MaxLoggedExpenses

request(op, actor, id, body) == [op |-> op, actor |-> actor, id |-> id, body |-> body]

answered(response) ==
  [done |-> TRUE, status |-> response.status, message |-> response.message]

LoggedInit == Init

LoggedCreateExpense ==
  \E actor \in LoggedCreators, body \in LoggedCreateBodies :
    /\ createExpenseWithin(MaxLoggedExpenses, actor, body)
    /\ input' = request("create", actor, 0, body)
    /\ result' = answered(createExpenseResponse(actor, body))
    /\ UNCHANGED <<preDelete, requests, feeds>>

LoggedUpdateExpense ==
  \E actor \in Users, id \in LoggedExpenseIds, body \in LoggedUpdateBodies :
    /\ updateExpense(actor, id, body)
    /\ input' = request("update", actor, id, body)
    /\ result' = answered(updateExpenseResponse(actor, id, body))
    /\ UNCHANGED <<preDelete, requests, feeds>>

LoggedDeleteExpense ==
  \E actor \in Users, id \in LoggedExpenseIds, body \in LoggedDeleteBodies :
    /\ deleteExpense(actor, id, body)
    /\ input' = request("delete", actor, id, body)
    /\ result' = answered(deleteExpenseResponse(actor, id, body))
    /\ UNCHANGED <<preDelete, requests, feeds>>

LoggedRestoreExpense ==
  \E actor \in Users, id \in LoggedExpenseIds :
    /\ restoreExpense(actor, id)
    /\ input' = request("restore", actor, id, <<>>)
    /\ result' = answered(restoreExpenseResponse(actor, id))
    /\ UNCHANGED <<preDelete, requests, feeds>>

LoggedNext ==
  \/ LoggedCreateExpense
  \/ LoggedUpdateExpense
  \/ LoggedDeleteExpense
  \/ LoggedRestoreExpense

SpecRequests == LoggedInit /\ [][LoggedNext]_vars

\* -------------------------------------------------- over-payment specification
\* The scenario's expenses with settlements of 1.00 and of 1.50, so that a
\* payment can exceed the share of 1.00 it settles; input and result record
\* the last request and its answer.
OverpayTransactionBodies == [to : Users, amount : {1000, 1500}]

OverpayInit == Init

OverpayCreateExpense ==
  \E actor \in ExpenseCreators, body \in ScenarioExpenseBodies :
    /\ createExpense(actor, body)
    /\ input' = request("create", actor, 0, body)
    /\ result' = answered(createExpenseResponse(actor, body))
    /\ UNCHANGED <<preDelete, requests, feeds>>

OverpayCreateTransaction ==
  \E actor \in Users, body \in OverpayTransactionBodies :
    /\ createTransaction(actor, body)
    /\ input' = request("createTransaction", actor, 0, body)
    /\ result' = answered(createTransactionResponse(actor, body))
    /\ UNCHANGED <<preDelete, requests, feeds>>

OverpayNext ==
  \/ OverpayCreateExpense
  \/ OverpayCreateTransaction

SpecOverpay == OverpayInit /\ [][OverpayNext]_vars

\* ------------------------------------------- overlapping-edit specification
\* PATCH /api/expenses/:id is an async handler: it reads the document
\* (findById), checks and validates the request against what it read, and only
\* then saves.  Another request can be served between the read and the save, so
\* the handler is two steps here: RaceRead (everything up to the save) and
\* RaceSave (Object.assign and expense.save()).  requests holds the requests
\* that have read, in the order of their reads.
\*
\* expense.save() on a document that was read from the collection writes the
\* paths that were modified on the in-memory document, and no other path.  When
\* the participants array is one of them the write is conditional on the
\* version (__v) the document had when it was read and it increments the
\* version; a write that finds another version throws (VersionError) and stores
\* nothing.  A write of scalar paths neither looks at the version nor changes it.
RaceActors == {"alice", "bob"}

\* Edits of the stored 0.02 expense: to 0.03; to a single share of 0.01 for
\* Alice; to shares of 0.01 for Alice and 0.02 for Bob together with 0.03.
RaceUpdateBodies ==
  [amount : {30}]
    \cup [participants : {<<P("alice", 10)>>}]
    \cup [amount : {30}, participants : {<<P("alice", 10), P("bob", 20)>>}]

\* The updates object of the handler: the supplied fields, converted.
preparedUpdates(body) ==
  [f \in DOMAIN body \cap {"title", "amount", "participants", "splitMethod"} |->
     IF f = "amount" THEN rupeesToPaise(body.amount)
     ELSE IF f = "participants" THEN toPaise(body.participants)
     ELSE body[f]]

\* The paths of the in-memory document that Object.assign changed.
modifiedPaths(req) ==
  {f \in DOMAIN req.updates : req.updates[f] # req.expense[f]}

\* The version of a stored document: the number of array writes it has taken.
documentVersion(id) ==
  Cardinality({q \in 1..Len(requests) :
                 /\ requests[q].status = "saved"
                 /\ requests[q].id = id
                 /\ "participants" \in modifiedPaths(requests[q])})

\* The number of saves the collection has taken.
savesDone == Cardinality({q \in 1..Len(requests) : requests[q].status = "saved"})

RaceInit == Init

RaceCreateExpense ==
  \E body \in LoggedCreateBodies :
    /\ createExpenseWithin(MaxLoggedExpenses, body.payer, body)
    /\ UNCHANGED others

\* The handler up to the save.  A request that is answered before the save
\* (404, 400, 403, or a document the schema refuses) leaves nothing in flight.
RaceRead ==
  \E actor \in RaceActors, id \in LoggedExpenseIds, body \in RaceUpdateBodies :
    /\ Len(requests) < MaxRacers
    /\ IF updateExpenseResponse(actor, id, body).status # 200
       THEN UNCHANGED requests
       ELSE LET expense == expenses[id]
                updates == preparedUpdates(body)
            IN requests' = Append(requests,
                 [actor |-> actor, id |-> id,
                  expense |-> expense,
                  version |-> documentVersion(id),
                  updates |-> updates,
                  amountToValidate |->
                    IF "amount" \in DOMAIN updates THEN updates.amount
                    ELSE expense.amount,
                  participantsToValidate |->
                    IF "participants" \in DOMAIN updates THEN updates.participants
                    ELSE expense.participants,
                  readAfter |-> savesDone,
                  savedAt |-> 0,
                  status |-> "read"])
    /\ UNCHANGED <<expenses, transactions, preDelete, input, result, feeds>>

\* Object.assign(expense, updates); await expense.save()
RaceSave ==
  \E r \in 1..Len(requests) :
    /\ requests[r].status = "read"
    /\ LET req == requests[r]
           stored == expenses[req.id]
           modified == modifiedPaths(req)
       IN IF "participants" \in modified /\ documentVersion(req.id) # req.version
          THEN /\ requests' = [requests EXCEPT ![r].status = "failed"]
               /\ UNCHANGED expenses
          ELSE /\ expenses' = [expenses EXCEPT ![req.id] =
                                 [f \in DOMAIN stored |->
                                    IF f \in modified THEN req.updates[f]
                                    ELSE stored[f]]]
               /\ requests' = [requests EXCEPT ![r].status = "saved",
                                               ![r].savedAt = savesDone + 1]
    /\ UNCHANGED <<transactions, preDelete, input, result, feeds>>

RaceNext ==
  \/ RaceCreateExpense
  \/ RaceRead
  \/ RaceSave

SpecRace == RaceInit /\ [][RaceNext]_vars

\* --------------------------------------------------- activity specification
\* Each write handler, after its save, asks the activity service for an
\* activity record.  The service functions build the record and save it inside
\* a try block; a save that fails is logged and null is returned.  activities
\* lists the records the service tried to save, with stored telling whether the
\* save went through.  The save of an activity can fail whatever the request
\* was, so its outcome is an input of every step.
expenseTargets(expense) ==
  {expense.payer} \cup {expense.participants[k].user : k \in 1..Len(expense.participants)}

createExpenseActivity(expense, id, actorId, saves) ==
  [type |-> "EXPENSE_CREATED", actor |-> actorId, targets |-> expenseTargets(expense),
   ref |-> id, amount |-> expense.amount, stored |-> saves]

createExpenseUpdateActivity(expense, id, actorId, saves) ==
  [type |-> "EXPENSE_UPDATED", actor |-> actorId, targets |-> expenseTargets(expense),
   ref |-> id, amount |-> expense.amount, stored |-> saves]

createExpenseDeleteActivity(expense, id, actorId, saves) ==
  [type |-> "EXPENSE_DELETED", actor |-> actorId, targets |-> expenseTargets(expense),
   ref |-> id, amount |-> expense.amount, stored |-> saves]

createTransactionActivity(transaction, id, actorId, saves) ==
  [type |-> "TRANSACTION_CREATED", actor |-> actorId,
   targets |-> {transaction.from, transaction.to},
   ref |-> id, amount |-> transaction.amount, stored |-> saves]

ActivityTransactionBodies == [to : {"alice", "bob"}, amount : {10}]

ActivityInit == Init

\* POST /api/expenses
ActivityCreateExpense ==
  \E actor \in LoggedCreators, body \in LoggedCreateBodies, saves \in BOOLEAN :
    /\ Len(activities) < MaxActivities
    /\ createExpenseWithin(MaxLoggedExpenses, actor, body)
    /\ LET response == createExpenseResponse(actor, body)
           id == Len(expenses')
       IN /\ activities' =
               IF response.status = 201
               THEN Append(activities,
                           createExpenseActivity(expenses'[id], id, actor, saves))
               ELSE activities
          /\ input' = request("create", actor, 0, body)
          /\ result' = answered(response)
    /\ UNCHANGED <<preDelete, requests, friendships>>

\* PATCH /api/expenses/:id
ActivityUpdateExpense ==
  \E actor \in Users, id \in LoggedExpenseIds, body \in LoggedUpdateBodies,
     saves \in BOOLEAN :
    /\ Len(activities) < MaxActivities
    /\ updateExpense(actor, id, body)
    /\ LET response == updateExpenseResponse(actor, id, body)
       IN /\ activities' =
               IF response.status = 200
               THEN Append(activities,
                           createExpenseUpdateActivity(expenses'[id], id, actor, saves))
               ELSE activities
          /\ input' = request("update", actor, id, body)
          /\ result' = answered(response)
    /\ UNCHANGED <<preDelete, requests, friendships>>

\* DELETE /api/expenses/:id
ActivityDeleteExpense ==
  \E actor \in Users, id \in LoggedExpenseIds, body \in LoggedDeleteBodies,
     saves \in BOOLEAN :
    /\ Len(activities) < MaxActivities
    /\ deleteExpense(actor, id, body)
    /\ LET response == deleteExpenseResponse(actor, id, body)
       IN /\ activities' =
               IF response.status = 200
               THEN Append(activities,
                           createExpenseDeleteActivity(expenses'[id], id, actor, saves))
               ELSE activities
          /\ input' = request("delete", actor, id, body)
          /\ result' = answered(response)
    /\ UNCHANGED <<preDelete, requests, friendships>>

\* POST /api/expenses/:id/restore.  The call that should create the activity
\* throws before the service is entered: nothing is tried.
ActivityRestoreExpense ==
  \E actor \in Users, id \in LoggedExpenseIds :
    /\ Len(activities) < MaxActivities
    /\ restoreExpense(actor, id)
    /\ input' = request("restore", actor, id, <<>>)
    /\ result' = answered(restoreExpenseResponse(actor, id))
    /\ UNCHANGED <<preDelete, requests, feeds>>

\* POST /api/transactions
ActivityCreateTransaction ==
  \E actor \in Users, body \in ActivityTransactionBodies, saves \in BOOLEAN :
    /\ Len(activities) < MaxActivities
    /\ createTransaction(actor, body)
    /\ LET response == createTransactionResponse(actor, body)
           id == Len(transactions')
       IN /\ activities' =
               IF response.status = 201
               THEN Append(activities,
                           createTransactionActivity(transactions'[id], id, actor, saves))
               ELSE activities
          /\ input' = request("createTransaction", actor, 0, body)
          /\ result' = answered(response)
    /\ UNCHANGED <<preDelete, requests, friendships>>

ActivityNext ==
  \/ ActivityCreateExpense
  \/ ActivityUpdateExpense
  \/ ActivityDeleteExpense
  \/ ActivityRestoreExpense
  \/ ActivityCreateTransaction

SpecActivity == ActivityInit /\ [][ActivityNext]_vars

\* ------------------------------------------------ settlement specification
\* POST /api/transactions with and without the optional 'from' of the body:
\* payments of 0.004, 0.01 and 0.02 recorded by any user, from and to any user.
SettleTransactionBodies ==
  [to : Users, amount : {4, 10, 20}]
    \cup [from : Users, to : Users, amount : {4, 10, 20}]

SettleInit == Init

SettleCreateTransaction ==
  \E actor \in Users, body \in SettleTransactionBodies :
    /\ createTransaction(actor, body)
    /\ input' = request("createTransaction", actor, 0, body)
    /\ result' = answered(createTransactionResponse(actor, body))
    /\ UNCHANGED <<preDelete, requests, feeds>>

SettleNext == SettleCreateTransaction

SpecSettle == SettleInit /\ [][SettleNext]_vars

\* ------------------------------------------------- friendship specifications
\* The Friend collection has a unique index on (user, friend) and a pre-save
\* hook that refuses user = friend.  A friendship is identified here by its
\* (user, friend) pair.
friendshipExists(userId, friendId) ==
  \E i \in 1..Len(friends) : friends[i].user = userId /\ friends[i].friend = friendId

\* What Friend.save() throws for a new (user, friend) document.
friendSaveError(userId, friendId) ==
  IF userId = friendId THEN "Cannot add yourself as a friend"
  ELSE IF friendshipExists(userId, friendId) THEN "E11000 duplicate key"
  ELSE "none"

friendship(userId, friendId) == [user |-> userId, friend |-> friendId]

\* The users of an expense in the order createExpense collects them: the payer,
\* then the participants not seen before.
RECURSIVE uniqueUsers(_, _)
uniqueUsers(seen, participants) ==
  IF participants = <<>> THEN seen
  ELSE uniqueUsers(IF \E k \in 1..Len(seen) : seen[k] = Head(participants).user
                   THEN seen ELSE Append(seen, Head(participants).user),
                   Tail(participants))

\* The ensureBidirectionalFriendship calls createExpense makes for expense id:
\* one for every i < j of the collected users.
RECURSIVE spawnFrom(_, _, _, _)
spawnFrom(userIdsArray, i, j, id) ==
  IF i >= Len(userIdsArray) THEN <<>>
  ELSE IF j > Len(userIdsArray) THEN spawnFrom(userIdsArray, i + 1, i + 2, id)
  ELSE <<[kind |-> "ensure", a |-> userIdsArray[i], b |-> userIdsArray[j],
          pc |-> "check1", for |-> id]>>
         \o spawnFrom(userIdsArray, i, j + 1, id)

ensureTasks(body, id) ==
  spawnFrom(uniqueUsers(<<body.payer>>, body.participants), 1, 2, id)

Finished(task) == task.pc \in {"done", "failed", "refused"}

\* One await of ensureBidirectionalFriendship(a, b): the two lookups and the
\* two saves.  A save that throws ends the task: the rejection is logged by the
\* caller's catch and the second direction is never looked at.
ensureStep(task) ==
  IF task.pc = "check1"
  THEN [task |-> [task EXCEPT !.pc = IF friendshipExists(task.a, task.b)
                                     THEN "check2" ELSE "save1"],
        friends |-> friends]
  ELSE IF task.pc = "save1"
  THEN IF friendSaveError(task.a, task.b) = "none"
       THEN [task |-> [task EXCEPT !.pc = "check2"],
             friends |-> Append(friends, friendship(task.a, task.b))]
       ELSE [task |-> [task EXCEPT !.pc = "failed"], friends |-> friends]
  ELSE IF task.pc = "check2"
  THEN [task |-> [task EXCEPT !.pc = IF friendshipExists(task.b, task.a)
                                     THEN "done" ELSE "save2"],
        friends |-> friends]
  ELSE IF friendSaveError(task.b, task.a) = "none"
       THEN [task |-> [task EXCEPT !.pc = "done"],
             friends |-> Append(friends, friendship(task.b, task.a))]
       ELSE [task |-> [task EXCEPT !.pc = "failed"], friends |-> friends]

\* One await of addFriend(a, b's email): the lookup, then the save.
addFriendStep(task) ==
  IF task.pc = "check"
  THEN [task |-> [task EXCEPT !.pc = IF friendshipExists(task.a, task.b)
                                     THEN "refused" ELSE "save"],
        friends |-> friends]
  ELSE IF friendSaveError(task.a, task.b) = "none"
       THEN [task |-> [task EXCEPT !.pc = "done"],
             friends |-> Append(friends, friendship(task.a, task.b))]
       ELSE [task |-> [task EXCEPT !.pc = "failed"], friends |-> friends]

\* What POST /api/friends answers when the call ends in pc.  After a save that
\* went through, addFriend calls createFriendAddedActivity, which the activity
\* service does not export: the call throws and the error handler answers 500.
addFriendResponse(pc) ==
  IF pc = "refused" THEN respond(400, "Friendship already exists")
  ELSE IF pc = "failed" THEN respond(400, "Duplicate value")
  ELSE respond(500, "Something went wrong on the server")

\* Mutant: a friendship is removed whatever the balance with the friend is.
removeFriendOutcome_noGate(userId, friendId) ==
  IF ~friendshipExists(userId, friendId)
  THEN [status |-> 404, error |-> "Friendship not found or you do not have permission",
        removed |-> FALSE]
  ELSE [status |-> 200, error |-> "", removed |-> TRUE]

\* DELETE /api/friends/:id, the friendship being the one of userId with friendId.
removeFriendOutcome(userId, friendId) ==
  IF ~friendshipExists(userId, friendId)
  THEN [status |-> 404, error |-> "Friendship not found or you do not have permission",
        removed |-> FALSE]
  ELSE LET balance == calculatePairwiseBalance(userId, friendId)
       IN IF balance.balance # 0
          THEN [status |-> 500,
                error |-> IF balance.balance > 0
                          THEN "Cannot remove friend. They owe you. Please settle up first."
                          ELSE "Cannot remove friend. You owe them. Please settle up first.",
                removed |-> FALSE]
          ELSE [status |-> 200, error |-> "", removed |-> TRUE]

removeFriend(userId, friendId) ==
  LET keep(f) == ~(f.user = userId /\ f.friend = friendId)
  IN friends' = IF removeFriendOutcome(userId, friendId).removed
                THEN SelectSeq(friends, keep) ELSE friends

FriendUsers == {"alice", "bob"}

FriendExpenseBodies ==
  [title : Titles, amount : {20}, payer : FriendUsers,
   participants : {<<P("alice", 10), P("bob", 10)>>}, splitMethod : {"equal"}]

FriendTransactionBodies == [to : FriendUsers, amount : {10}]

FriendInit == Init

\* POST /api/expenses: the expense is stored and the friendship calls are made;
\* each of them runs on its own from there.
FriendCreateExpense ==
  \E body \in FriendExpenseBodies :
    /\ createExpenseWithin(MaxLoggedExpenses, body.payer, body)
    /\ LET response == createExpenseResponse(body.payer, body)
           spawned == IF response.status = 201
                      THEN ensureTasks(body, Len(expenses')) ELSE <<>>
       IN /\ Len(tasks) + Len(spawned) <= MaxTasks
          /\ tasks' = tasks \o spawned
          /\ input' = request("create", body.payer, 0, body)
          /\ result' = answered(response)
    /\ UNCHANGED <<preDelete, requests, activities, friends>>

\* POST /api/friends: the call is made.
FriendAddFriend ==
  \E user \in FriendUsers, friend \in FriendUsers :
    /\ Len(tasks) < MaxTasks
    /\ tasks' = Append(tasks, [kind |-> "add", a |-> user, b |-> friend,
                               pc |-> IF user = friend THEN "refused" ELSE "check",
                               for |-> 0])
    /\ input' = request("addFriend", user, 0, [email |-> friend])
    /\ result' = IF user = friend
                 THEN answered(respond(400, "Cannot add yourself as a friend"))
                 ELSE NotRun
    /\ UNCHANGED <<store, preDelete, requests, activities, friends>>

\* A friendship call or an addFriend call gets the answer of the database it
\* was waiting for and runs to its next await.
FriendTaskStep ==
  \E k \in 1..Len(tasks) :
    /\ ~Finished(tasks[k])
    /\ LET next == IF tasks[k].kind = "ensure" THEN ensureStep(tasks[k])
                   ELSE addFriendStep(tasks[k])
       IN /\ tasks' = [tasks EXCEPT ![k] = next.task]
          /\ friends' = next.friends
          /\ input' = request(tasks[k].kind, tasks[k].a, tasks[k].for,
                              [email |-> tasks[k].b])
          /\ result' = IF tasks[k].kind = "add" /\ Finished(next.task)
                       THEN answered(addFriendResponse(next.task.pc))
                       ELSE NotRun
    /\ UNCHANGED <<store, preDelete, requests, activities>>

FriendshipNext ==
  \/ FriendCreateExpense
  \/ FriendAddFriend
  \/ FriendTaskStep

SpecFriendship == FriendInit /\ [][FriendshipNext]_vars

\* DELETE /api/friends/:id
FriendRemoveFriend ==
  \E user \in FriendUsers, friend \in FriendUsers :
    /\ removeFriend(user, friend)
    /\ LET outcome == removeFriendOutcome(user, friend)
       IN /\ input' = request("removeFriend", user, 0, [friend |-> friend])
          /\ result' = [done |-> TRUE, status |-> outcome.status,
                        error |-> outcome.error]
    /\ UNCHANGED <<store, preDelete, requests, activities, tasks>>

\* POST /api/transactions
FriendCreateTransaction ==
  \E actor \in FriendUsers, body \in FriendTransactionBodies :
    /\ createTransaction(actor, body)
    /\ input' = request("createTransaction", actor, 0, body)
    /\ result' = answered(createTransactionResponse(actor, body))
    /\ UNCHANGED <<preDelete, requests, feeds>>

FriendsNext ==
  \/ FriendCreateExpense
  \/ FriendTaskStep
  \/ FriendRemoveFriend
  \/ FriendCreateTransaction

SpecFriends == FriendInit /\ [][FriendsNext]_vars

\* Properties
\* ======================================================================
Pairs == {p \in Users \X Users : p[1] # p[2]}

RECURSIVE SumOver(_, _)
SumOver(S, f) ==
  IF S = {} THEN 0
  ELSE LET x == CHOOSE y \in S : TRUE IN f[x] + SumOver(S \ {x}, f)

ActiveIds == {i \in 1..Len(expenses) : ~expenses[i].isDeleted}

\* The share a user is listed with in an expense (0 when not listed).
ShareOf(i, u) ==
  LET idx == {k \in 1..Len(expenses[i].participants) :
                expenses[i].participants[k].user = u}
      shareAt == [k \in idx |-> expenses[i].participants[k].share]
  IN SumOver(idx, shareAt)

Listed(i, u) == \E k \in 1..Len(expenses[i].participants) :
                  expenses[i].participants[k].user = u

SettledFromTo(u, v) ==
  LET ids == {k \in 1..Len(transactions) :
                transactions[k].from = u /\ transactions[k].to = v}
      amountAt == [k \in ids |-> transactions[k].amount]
  IN SumOver(ids, amountAt)

\* C1. Antisymmetry: in every reachable state and for every two distinct
\* users A and B, calculatePairwiseBalance(A, B).balance is the negation of
\* calculatePairwiseBalance(B, A).balance.
C1_Antisymmetry ==
  \A p \in Pairs :
    calculatePairwiseBalance(p[1], p[2]).balance
      = -calculatePairwiseBalance(p[2], p[1]).balance

\* A state with an active and a deleted expense, a settlement, and a pair of
\* users whose balance is not zero.
C1_Witness ==
  /\ \E i, j \in 1..Len(expenses) : expenses[i].isDeleted /\ ~expenses[j].isDeleted
  /\ Len(transactions) >= 1
  /\ \E p \in Pairs : calculatePairwiseBalance(p[1], p[2]).balance > 0

\* C8. Pairwise reference formula: for distinct users U and V the balance is
\* (V's shares in active expenses paid by U) - (U's shares in active expenses
\* paid by V) + (settlements U -> V) - (settlements V -> U); an expense paid
\* by a third user contributes nothing.
PairwiseReference(u, v) ==
  LET paidBy(x) == {i \in ActiveIds : expenses[i].payer = x}
      vShare == [i \in ActiveIds |-> ShareOf(i, v)]
      uShare == [i \in ActiveIds |-> ShareOf(i, u)]
  IN SumOver(paidBy(u), vShare) - SumOver(paidBy(v), uShare)
       + SettledFromTo(u, v) - SettledFromTo(v, u)

C8_PairwiseFormula ==
  \A p \in Pairs :
    calculatePairwiseBalance(p[1], p[2]).balance = PairwiseReference(p[1], p[2])

\* Two users who are both listed in an active expense paid by the third user,
\* and whose balance is made of an expense and a settlement between them.
C8_Witness ==
  \E p \in Pairs :
    /\ \E i \in ActiveIds : /\ expenses[i].payer \notin {p[1], p[2]}
                            /\ Listed(i, p[1]) /\ Listed(i, p[2])
                            /\ ShareOf(i, p[1]) > 0 /\ ShareOf(i, p[2]) > 0
    /\ \E i \in ActiveIds : expenses[i].payer = p[1] /\ ShareOf(i, p[2]) > 0
    /\ SettledFromTo(p[2], p[1]) > 0

\* C9. Aggregate reference formula: totalOwed is the sum over active expenses
\* paid by U of (amount - U's own share) minus the settlements received by U;
\* totalOwing is the sum of U's shares in active expenses paid by others minus
\* the settlements paid by U; netBalance is their difference.
OwedReference(u) ==
  LET paid == {i \in ActiveIds : expenses[i].payer = u}
      othersPart == [i \in paid |-> expenses[i].amount - ShareOf(i, u)]
      received == {k \in 1..Len(transactions) : transactions[k].to = u}
      amountAt == [k \in received |-> transactions[k].amount]
  IN SumOver(paid, othersPart) - SumOver(received, amountAt)

OwingReference(u) ==
  LET joined == {i \in ActiveIds : expenses[i].payer # u}
      ownShare == [i \in joined |-> ShareOf(i, u)]
      paidOut == {k \in 1..Len(transactions) : transactions[k].from = u}
      amountAt == [k \in paidOut |-> transactions[k].amount]
  IN SumOver(joined, ownShare) - SumOver(paidOut, amountAt)

C9_AggregateFormula ==
  \A u \in Users :
    LET b == calculateOverallBalance(u)
    IN /\ b.totalOwed = OwedReference(u)
       /\ b.totalOwing = OwingReference(u)
       /\ b.netBalance = b.totalOwed - b.totalOwing

\* A payer listed with a positive share of an active expense, who has also
\* received a settlement.
C9_Witness ==
  \E u \in Users :
    /\ \E i \in ActiveIds : expenses[i].payer = u /\ ShareOf(i, u) > 0
    /\ \E k \in 1..Len(transactions) : transactions[k].to = u
    /\ calculateOverallBalance(u).totalOwed > 0

\* C2. Soft-delete exclusion: for every soft-deleted expense e, what
\* calculateOverallBalance returns for each payer or participant of e, and
\* what calculatePairwiseBalance returns for every pair, is what they return
\* on the same records with e absent altogether.
RemoveAt(seq, i) == SubSeq(seq, 1, i - 1) \o SubSeq(seq, i + 1, Len(seq))

\* A pairwise result without the document ids of its detail rows (removing a
\* document renumbers the positions that stand for ids).
Rows(r) ==
  [balance |-> r.balance,
   balanceInRupees |-> r.balanceInRupees,
   status |-> r.status,
   expenses |-> [k \in 1..Len(r.expenses) |->
                   <<r.expenses[k].amount, r.expenses[k].yourShare,
                     r.expenses[k].theirShare>>],
   transactions |-> r.transactions]

C2_SoftDeleteExclusion ==
  \A i \in 1..Len(expenses) :
    expenses[i].isDeleted =>
      /\ \A u \in Users :
           (expenses[i].payer = u \/ Listed(i, u)) =>
             calculateOverallBalance(u)
               = calculateOverallBalanceIn(RemoveAt(expenses, i), transactions, u)
      /\ \A p \in Pairs :
           Rows(calculatePairwiseBalance(p[1], p[2]))
             = Rows(calculatePairwiseBalanceIn(RemoveAt(expenses, i), transactions,
                                               p[1], p[2]))

\* A deleted expense with positive shares next to an active expense and a
\* settlement, deleted by one of its participants.
C2_Witness ==
  \E i, j \in 1..Len(expenses) :
    /\ expenses[i].isDeleted /\ expenses[i].deletedBy \in Users
    /\ \E u \in Users : u # expenses[i].payer /\ ShareOf(i, u) > 0
    /\ ~expenses[j].isDeleted
    /\ Len(transactions) >= 1

\* C4. Settlement monotonicity: a stored settlement from A to B of amount a
\* (a >= 1) makes totalOwing of A and totalOwed of B exactly a lower than they
\* are on the same records without that settlement, and leaves totalOwed of A
\* and totalOwing of B as they are without it.
C4_SettlementMonotonicity ==
  \A k \in 1..Len(transactions) :
    LET t == transactions[k]
        rest == RemoveAt(transactions, k)
        fromNow == calculateOverallBalance(t.from)
        toNow == calculateOverallBalance(t.to)
        fromBefore == calculateOverallBalanceIn(expenses, rest, t.from)
        toBefore == calculateOverallBalanceIn(expenses, rest, t.to)
    IN /\ t.amount >= 1
       /\ fromNow.totalOwing = fromBefore.totalOwing - t.amount
       /\ toNow.totalOwed = toBefore.totalOwed - t.amount
       /\ fromNow.totalOwed = fromBefore.totalOwed
       /\ toNow.totalOwing = toBefore.totalOwing

\* A settlement between two users of whom the payer owed, and the receiver
\* was owed, a share of an active expense.
C4_Witness ==
  \E k \in 1..Len(transactions) :
    LET t == transactions[k]
    IN \E i \in ActiveIds : expenses[i].payer = t.to /\ ShareOf(i, t.from) > 0

\* C5. Stored-expense invariant: every stored expense has shares summing to
\* its amount within 1 paise, at least one participant, no user listed twice
\* and no negative share.
C5_StoredExpenseInvariant ==
  \A i \in 1..Len(expenses) :
    LET ps == expenses[i].participants
        all == [k \in 1..Len(ps) |-> ps[k].share]
    IN /\ SumOver(1..Len(ps), all) - expenses[i].amount \in {-1, 0, 1}
       /\ Len(ps) >= 1
       /\ \A k, l \in 1..Len(ps) : k # l => ps[k].user # ps[l].user
       /\ \A k \in 1..Len(ps) : ps[k].share >= 0

\* Two stored expenses, one whose shares exceed its amount by 1 paise and one
\* whose shares fall short of it by 1 paise.
C5_Witness ==
  \E i, j \in 1..Len(expenses) :
    /\ sumShares(expenses[i].participants) = expenses[i].amount + 1
    /\ sumShares(expenses[j].participants) = expenses[j].amount - 1

\* C7. Settlement store: every stored settlement has from # to and an amount
\* of at least 1 paise, and a step changes the collection only by appending
\* one such settlement: nothing stored is ever modified or removed.
C7_StoredSettlementsOk ==
  \A k \in 1..Len(transactions) :
    transactions[k].from # transactions[k].to /\ transactions[k].amount >= 1

C7_AppendOnly ==
  \/ transactions' = transactions
  \/ /\ Len(transactions') = Len(transactions) + 1
     /\ SubSeq(transactions', 1, Len(transactions)) = transactions
     /\ transactions'[Len(transactions')].from # transactions'[Len(transactions')].to
     /\ transactions'[Len(transactions')].amount >= 1

C3_RoundTrip == preDelete.restored => allBalances = preDelete.balances

\* An expense that somebody owes on was deleted and restored, with a
\* settlement on record, and a second expense is still deleted.
C3_Witness ==
  /\ preDelete.restored
  /\ \E u \in Users : calculateOverallBalance(u).totalOwing > 0
  /\ isParticipant(expenses[preDelete.id], "bob")
  /\ Len(transactions) > 0
  /\ \E i \in 1..Len(expenses) : expenses[i].isDeleted

\* C6. Share-sum boundary: with sum the total of the shares and diff =
\* |sum - total|, validateSharesSum is valid exactly when diff <= 1 and
\* reports sum and diff; validateExpenseCreation carries a share-sum error,
\* reporting sum and diff, exactly when diff >= 2, and accepts the expense
\* when diff <= 1 and no other rule fails; the pre-save hook passes exactly
\* when diff <= 1.
InputSum ==
  LET idx == 1..Len(input.participants)
      shareAt == [k \in idx |-> input.participants[k].share]
  IN SumOver(idx, shareAt)

InputDiff == IF InputSum >= input.amount THEN InputSum - input.amount
             ELSE input.amount - InputSum

SharesSumErrors(errors) == {k \in 1..Len(errors) : errors[k].rule = "sharesSum"}

C6_ShareSumBoundary ==
  result.done =>
    /\ result.call = "validateSharesSum" =>
         /\ result.value.valid <=> InputDiff <= 1
         /\ result.value.totalShares = InputSum
         /\ result.value.difference = InputDiff
    /\ result.call = "validateExpenseCreation" =>
         LET errors == result.value.errors
         IN /\ InputDiff >= 2 =>
                 /\ ~result.value.valid
                 /\ \E k \in SharesSumErrors(errors) :
                      /\ errors[k].totalShares = InputSum
                      /\ errors[k].difference = InputDiff
            /\ InputDiff <= 1 =>
                 /\ SharesSumErrors(errors) = {}
                 /\ (\A k, l \in 1..Len(input.participants) :
                       k # l => input.participants[k].user # input.participants[l].user)
                    => result.value.valid
    /\ result.call = "preSave" => (result.value.valid <=> InputDiff <= 1)

\* validateExpenseCreation accepted shares one paise above the total.
C6_Witness ==
  /\ result.done
  /\ result.call = "validateExpenseCreation"
  /\ result.value.valid
  /\ InputSum = input.amount + 1

\* C10. Settle-up scenario: when the only active expense is one of 300 paid
\* by Alice and split 100/100/100 among Alice, Bob and Charlie, then with no
\* settlement Alice.totalOwed = 200, Bob.totalOwing = 100 and
\* Charlie.totalOwing = 100; and with the single settlement of 100 from Bob
\* to Alice, Bob.totalOwing = 0, Alice.totalOwed = 100 and the pairwise
\* balance between Alice and Bob is 0 with status 'settled'.
AlicePaid300 ==
  /\ Cardinality(ActiveIds) = 1
  /\ \A i \in ActiveIds :
       /\ expenses[i].payer = "alice"
       /\ expenses[i].amount = 300
       /\ Len(expenses[i].participants) = 3
       /\ \A u \in Users : Listed(i, u) /\ ShareOf(i, u) = 100

BobSettled100 ==
  /\ Len(transactions) = 1
  /\ transactions[1].from = "bob"
  /\ transactions[1].to = "alice"
  /\ transactions[1].amount = 100

C10_SettleUp ==
  /\ AlicePaid300 /\ transactions = <<>> =>
       /\ calculateOverallBalance("alice").totalOwed = 200
       /\ calculateOverallBalance("bob").totalOwing = 100
       /\ calculateOverallBalance("charlie").totalOwing = 100
  /\ AlicePaid300 /\ BobSettled100 =>
       /\ calculateOverallBalance("bob").totalOwing = 0
       /\ calculateOverallBalance("alice").totalOwed = 100
       /\ calculatePairwiseBalance("alice", "bob").balance = 0
       /\ calculatePairwiseBalance("alice", "bob").status = "settled"
       /\ calculatePairwiseBalance("bob", "alice").balance = 0
       /\ calculatePairwiseBalance("bob", "alice").status = "settled"

\* The walk-through's final state: Alice's expense and Bob's settlement.
C10_Witness == Len(expenses) = 1 /\ AlicePaid300 /\ BobSettled100

\* The active expenses are exactly the three of the chain: 300 paid by Alice
\* and split 100/100/100, 600 paid by Bob and split 200/200/200, 150 paid by
\* Charlie and split 75/75 between Bob and Charlie.
ThreeWay(i, payer, amount, share) ==
  /\ expenses[i].payer = payer
  /\ expenses[i].amount = amount
  /\ Len(expenses[i].participants) = 3
  /\ \A u \in Users : Listed(i, u) /\ ShareOf(i, u) = share

ChainState ==
  /\ Cardinality(ActiveIds) = 3
  /\ \E i \in ActiveIds : ThreeWay(i, "alice", 300, 100)
  /\ \E i \in ActiveIds : ThreeWay(i, "bob", 600, 200)
  /\ \E i \in ActiveIds :
       /\ expenses[i].payer = "charlie"
       /\ expenses[i].amount = 150
       /\ Len(expenses[i].participants) = 2
       /\ ~Listed(i, "alice")
       /\ ShareOf(i, "bob") = 75
       /\ ShareOf(i, "charlie") = 75
  /\ transactions = <<>>

\* C11. Three-way chain, aggregates: in the chain state
\* calculateOverallBalance gives Alice totalOwed 200, totalOwing 200, net 0;
\* Bob totalOwed 400, totalOwing 175, net +225; Charlie totalOwed 75,
\* totalOwing 300, net -225.
C11_ChainAggregates ==
  ChainState =>
    /\ calculateOverallBalance("alice").totalOwed = 200
    /\ calculateOverallBalance("alice").totalOwing = 200
    /\ calculateOverallBalance("alice").netBalance = 0
    /\ calculateOverallBalance("bob").totalOwed = 400
    /\ calculateOverallBalance("bob").totalOwing = 175
    /\ calculateOverallBalance("bob").netBalance = 225
    /\ calculateOverallBalance("charlie").totalOwed = 75
    /\ calculateOverallBalance("charlie").totalOwing = 300
    /\ calculateOverallBalance("charlie").netBalance = 0 - 225

\* The chain state with nothing else in the store.
C11_Witness == ChainState /\ Len(expenses) = 3

\* The state after the walk-through's second expense: the active expenses are
\* exactly Alice's 300 and Bob's 600, both split three ways.
TwoExpenseState ==
  /\ Cardinality(ActiveIds) = 2
  /\ \E i \in ActiveIds : ThreeWay(i, "alice", 300, 100)
  /\ \E i \in ActiveIds : ThreeWay(i, "bob", 600, 200)
  /\ transactions = <<>>

RuleViolated(rule) ==
  LET idx == 1..Len(input.participants)
  IN CASE rule = "payerExists" -> input.payer \notin Users
       [] rule = "noDuplicates" ->
            \E k, l \in idx : k # l /\ input.participants[k].user = input.participants[l].user
       [] rule = "participantsExist" ->
            \E k \in idx : input.participants[k].user \notin Users
       [] rule = "positiveShares" ->
            \E k \in idx : input.participants[k].share < 0
       [] rule = "sharesSum" -> InputDiff >= 2

ViolatedRules ==
  SelectSeq(<<"payerExists", "noDuplicates", "participantsExist",
              "positiveShares", "sharesSum">>, RuleViolated)

C13_CollectAll ==
  (result.done /\ result.call = "validateExpenseCreation") =>
    /\ [k \in 1..Len(result.value.errors) |-> result.value.errors[k].rule] = ViolatedRules
    /\ result.value.valid <=> ViolatedRules = <<>>

\* One call reported all five rules at once.
C13_Witness ==
  /\ result.done
  /\ result.call = "validateExpenseCreation"
  /\ Len(result.value.errors) = 5

\* In a step of the request specification input' is the request being served
\* and result' its answer.  Whether a user is creator, payer or participant:
Related(id, actor) ==
  \/ expenses[id].createdBy = actor
  \/ expenses[id].payer = actor
  \/ Listed(id, actor)

\* C14. Authorization of edit and delete: an update or delete of an existing
\* expense answers 200 only when the acting user is its creator, its payer or
\* one of its participants; a request by any other user is refused and leaves
\* the whole store unchanged, and the refusal is the 403 of the handler's
\* authorization check whenever the request reaches that check (the body
\* passes the route's validation and the expense is not deleted).
C14_Step ==
  (input'.op \in {"update", "delete"} /\ input'.id \in 1..Len(expenses)) =>
    LET id == input'.id
        actor == input'.actor
        reachesCheck == /\ ~expenses[id].isDeleted
                        /\ input'.op = "update" => updateExpenseValidation(input'.body)
    IN /\ result'.status = 200 => Related(id, actor)
       /\ ~Related(id, actor) =>
            /\ expenses' = expenses
            /\ transactions' = transactions
            /\ result'.status \in {400, 403}
            /\ reachesCheck => result'.status = 403

C15_Step ==
  (/\ input'.op = "update"
   /\ input'.id \in 1..Len(expenses)
   /\ input'.actor # expenses[input'.id].createdBy) =>
    /\ result'.status # 200
    /\ expenses' = expenses

C15_CreatorOnlyEdit == [][C15_Step]_vars

\* C16. Soft delete preserves the record: a delete step leaves title, amount,
\* payer, participants, splitMethod and createdBy of every expense unchanged
\* and, when answered 200, sets isDeleted, deletedBy, deletedAt and
\* deletedReason of the addressed expense only; a restore step leaves the same
\* payload unchanged and, unless it is refused (400, 403, 404), sets isDeleted
\* to FALSE and clears deletedBy, deletedAt and deletedReason of the addressed
\* expense only; no step of any operation removes an expense from the store.
Payload(e) ==
  <<e.title, e.amount, e.payer, e.participants, e.splitMethod, e.createdBy>>

Refused(status) == status \in {400, 403, 404}

C16_Step ==
  /\ Len(expenses') >= Len(expenses)
  /\ \A i \in 1..Len(expenses) : expenses'[i].createdBy = expenses[i].createdBy
  /\ input'.op \in {"delete", "restore"} =>
       /\ Len(expenses') = Len(expenses)
       /\ \A i \in 1..Len(expenses) :
            /\ Payload(expenses'[i]) = Payload(expenses[i])
            /\ i # input'.id => expenses'[i] = expenses[i]
       /\ Refused(result'.status) => expenses' = expenses
  /\ input'.op = "delete" =>
       /\ result'.status # 200 => expenses' = expenses
       /\ result'.status = 200 =>
            /\ ~expenses[input'.id].isDeleted
            /\ expenses'[input'.id].isDeleted
            /\ expenses'[input'.id].deletedBy = input'.actor
            /\ expenses'[input'.id].deletedAt # None
            /\ expenses'[input'.id].deletedReason = input'.body.reason
  /\ (input'.op = "restore" /\ ~Refused(result'.status)) =>
       /\ expenses[input'.id].isDeleted
       /\ ~expenses'[input'.id].isDeleted
       /\ expenses'[input'.id].deletedBy = None
       /\ expenses'[input'.id].deletedAt = None
       /\ expenses'[input'.id].deletedReason = None

C16_SoftDeleteFrame == [][C16_Step]_vars

\* The last request restored an expense whose payload had been edited before
\* it was deleted.
C16_Witness ==
  /\ result.done
  /\ input.op = "restore"
  /\ ~Refused(result.status)
  /\ ~expenses[input.id].isDeleted
  /\ expenses[input.id].amount = 3
  /\ expenses[input.id].deletedReason = None

\* C17. Edit re-validation with fixed payer: an update step never changes the
\* payer or the creator of any expense; when the body supplies amount and/or
\* participants, the proposed state (the new amount or the stored one, the new
\* participants or the stored ones, the stored payer) is validated in full:
\* if it breaks any rule the request is refused and the store is unchanged,
\* and a request answered 200 stores exactly the proposed amount and
\* participants.
SeqSum(participants) ==
  LET idx == 1..Len(participants)
      shareAt == [k \in idx |-> participants[k].share]
  IN SumOver(idx, shareAt)

ProposalBroken(amount, payer, participants) ==
  LET idx == 1..Len(participants)
  IN \/ payer \notin Users
     \/ \E k, l \in idx : k # l /\ participants[k].user = participants[l].user
     \/ \E k \in idx : participants[k].user \notin Users
     \/ \E k \in idx : participants[k].share < 0
     \/ SeqSum(participants) - amount >= 2
     \/ amount - SeqSum(participants) >= 2

C17_Step ==
  (input'.op = "update" /\ input'.id \in 1..Len(expenses)) =>
    LET id == input'.id
        body == input'.body
        hasAmount == "amount" \in DOMAIN body
        hasParticipants == "participants" \in DOMAIN body
        proposedAmount == IF hasAmount THEN (body.amount + 5) \div 10
                          ELSE expenses[id].amount
        proposedParticipants ==
          IF hasParticipants
          THEN [k \in 1..Len(body.participants) |->
                  [user |-> body.participants[k].user,
                   share |-> (body.participants[k].share + 5) \div 10]]
          ELSE expenses[id].participants
    IN /\ Len(expenses') = Len(expenses)
       /\ \A i \in 1..Len(expenses) :
            /\ expenses'[i].payer = expenses[i].payer
            /\ expenses'[i].createdBy = expenses[i].createdBy
            /\ i # id => expenses'[i] = expenses[i]
       /\ ((hasAmount \/ hasParticipants)
           /\ ProposalBroken(proposedAmount, expenses[id].payer, proposedParticipants)) =>
            /\ result'.status # 200
            /\ expenses' = expenses
       /\ result'.status = 200 =>
            /\ expenses'[id].amount = proposedAmount
            /\ expenses'[id].participants = proposedParticipants
       /\ result'.status # 200 => expenses' = expenses

C17_EditRevalidation == [][C17_Step]_vars

\* The last request supplied only participants of 1 paise for an expense
\* whose stored amount is 3 paise, and was refused by the validation.
C17_Witness ==
  /\ result.done
  /\ input.op = "update"
  /\ input.id \in 1..Len(expenses)
  /\ DOMAIN input.body = {"participants"}
  /\ input.body.participants = <<P("alice", 10)>>
  /\ expenses[input.id].amount = 3
  /\ ~expenses[input.id].isDeleted
  /\ isParticipant(expenses[input.id], input.actor)
  /\ result.status = 400
  /\ result.message = "Expense validation failed"

\* C18. Over-payment is accepted: a createTransaction request between two
\* different users with an amount of at least 1 paise is answered 201 and
\* stored whatever the current balances are; and in every state where U owes
\* V a net d >= 0 from the active expenses and has paid V a net a > d,
\* calculatePairwiseBalance(V, U).balance = -(a - d) < 0 and
\* calculatePairwiseBalance(U, V) is a - d with status 'owes_you'.
ExpenseDebt(u, v) ==
  LET paidBy(x) == {i \in ActiveIds : expenses[i].payer = x}
      uShare == [i \in ActiveIds |-> ShareOf(i, u)]
      vShare == [i \in ActiveIds |-> ShareOf(i, v)]
  IN SumOver(paidBy(v), uShare) - SumOver(paidBy(u), vShare)

NetPaid(u, v) == SettledFromTo(u, v) - SettledFromTo(v, u)

C18_Accepted ==
  (/\ input'.op = "createTransaction"
   /\ input'.actor # input'.body.to
   /\ (input'.body.amount + 5) \div 10 >= 1) =>
    /\ result'.status = 201
    /\ transactions' = Append(transactions,
                              [from |-> input'.actor,
                               to |-> input'.body.to,
                               amount |-> (input'.body.amount + 5) \div 10,
                               note |-> None,
                               createdBy |-> input'.actor])

C18_Overpaid ==
  \A p \in Pairs :
    LET u == p[1]
        v == p[2]
        d == ExpenseDebt(u, v)
        a == NetPaid(u, v)
    IN (d >= 0 /\ a > d) =>
         /\ calculatePairwiseBalance(v, u).balance = 0 - (a - d)
         /\ calculatePairwiseBalance(v, u).balance < 0
         /\ calculatePairwiseBalance(v, u).status = "you_owe"
         /\ calculatePairwiseBalance(u, v).balance = a - d
         /\ calculatePairwiseBalance(u, v).status = "owes_you"

C18_OverPayment == [][C18_Accepted]_vars /\ [](C18_Overpaid)

\* Bob owed Alice 100 and has paid her 150: the last request was that payment.
C18_Witness ==
  /\ result.done
  /\ input.op = "createTransaction"
  /\ result.status = 201
  /\ ExpenseDebt("bob", "alice") = 100
  /\ NetPaid("bob", "alice") = 150
  /\ calculatePairwiseBalance("bob", "alice").status = "owes_you"

\* C19. Order independence: totalOwed, totalOwing and netBalance of every
\* user and the pairwise balance and status of every pair are the same for
\* every order in which the committed expenses and settlements could have
\* been stored.
Orders(n) ==
  {f \in [1..n -> 1..n] : \A i, j \in 1..n : i # j => f[i] # f[j]}

Reordered(seq, f) == [i \in 1..Len(seq) |-> seq[f[i]]]

Totals(overall) == <<overall.totalOwed, overall.totalOwing, overall.netBalance>>

Overlap(r, q) ==
  /\ r # q
  /\ requests[r].id = requests[q].id
  /\ requests[r].status = "saved"
  /\ requests[q].status = "saved"
  /\ requests[r].readAfter < requests[q].savedAt
  /\ requests[q].readAfter < requests[r].savedAt

C20_LastWriteWins ==
  \A r, q \in 1..Len(requests) :
    (Overlap(r, q) /\ requests[q].savedAt > requests[r].savedAt)
      => /\ expenses[requests[q].id].amount = requests[q].amountToValidate
         /\ expenses[requests[q].id].participants = requests[q].participantsToValidate

\* C21. Notification failures are swallowed: in every step of a write handler,
\* an activity is tried only by a request that is answered 200 or 201 and
\* names a document that is in the store; a request that is refused tries no
\* activity and writes nothing; and a request whose write reached the store is
\* answered 200 or 201 whether or not the activity was stored.
Succeeded(status) == status \in {200, 201}

C21_Step ==
  /\ activities' # activities =>
       /\ Succeeded(result'.status)
       /\ LET tried == activities'[Len(activities')]
          IN tried.ref \in 1..(IF tried.type = "TRANSACTION_CREATED"
                               THEN Len(transactions') ELSE Len(expenses'))
  /\ Refused(result'.status) => (activities' = activities /\ store' = store)
  /\ store' # store => Succeeded(result'.status)

C21_NotificationsSwallowed == [][C21_Step]_vars

\* C22. Per-counterparty breakdown: for every user U, perUser of
\* calculateOverallBalance(U) has exactly one entry for each other user whose
\* accumulated balance with U (shares owed to U as payer, less U's shares owed
\* to that payer, plus payments U made to them, less payments they made to U,
\* over the active expenses and the settlements) is not zero, carrying that
\* balance, and no entry for anyone else; the entries are in non-increasing
\* order of balance; and the status of an entry is 'owes_you' when its balance
\* is positive and 'you_owe' when it is negative.
SharesOf(expense, user) ==
  LET idx == {k \in 1..Len(expense.participants) : expense.participants[k].user = user}
      shareAt == [k \in idx |-> expense.participants[k].share]
  IN SumOver(idx, shareAt)

Accumulated(u, v) ==
  LET active == {i \in 1..Len(expenses) : ~expenses[i].isDeleted}
      fromExpense == [i \in active |->
                        IF expenses[i].payer = u THEN SharesOf(expenses[i], v)
                        ELSE IF expenses[i].payer = v THEN 0 - SharesOf(expenses[i], u)
                        ELSE 0]
      paid == {k \in 1..Len(transactions) :
                 {transactions[k].from, transactions[k].to} = {u, v}}
      fromTransaction == [k \in paid |->
                            IF transactions[k].from = u THEN transactions[k].amount
                            ELSE 0 - transactions[k].amount]
  IN SumOver(active, fromExpense) + SumOver(paid, fromTransaction)

C22_PerUserBreakdown ==
  \A u \in Users :
    LET perUser == calculateOverallBalance(u).perUser
        entriesOf(v) == {i \in 1..Len(perUser) : perUser[i].user = v}
    IN /\ \A i \in 1..Len(perUser) : perUser[i].user \in Users \ {u}
       /\ \A v \in Users \ {u} :
            IF Accumulated(u, v) = 0 THEN entriesOf(v) = {}
            ELSE /\ Cardinality(entriesOf(v)) = 1
                 /\ \A i \in entriesOf(v) : perUser[i].balance = Accumulated(u, v)
       /\ \A i \in 1..(Len(perUser) - 1) : perUser[i].balance >= perUser[i + 1].balance
       /\ \A i \in 1..Len(perUser) :
            /\ perUser[i].balance > 0 => perUser[i].status = "owes_you"
            /\ perUser[i].balance < 0 => perUser[i].status = "you_owe"

\* Charlie's breakdown has two entries with different balances, the larger
\* amount owed to Charlie first, after a payment made to Charlie.
C22_Witness ==
  LET perUser == calculateOverallBalance("charlie").perUser
  IN /\ Len(perUser) = 2
     /\ perUser[1].balance > 0
     /\ perUser[2].balance < perUser[1].balance
     /\ \E k \in 1..Len(transactions) : transactions[k].to = "charlie"

\* C23. Friend removal is gated on a settled balance: a removeFriend request of
\* U for the friendship with V removes that friendship, and nothing else, when
\* calculatePairwiseBalance(U, V).balance is 0; when the balance is not 0 the
\* request fails with a 'Cannot remove friend ... Please settle up first'
\* error and the Friend collection is left as it was; and no removeFriend
\* request removes anything in any other case.
SettleUpFirst ==
  {"Cannot remove friend. They owe you. Please settle up first.",
   "Cannot remove friend. You owe them. Please settle up first."}

C23_Step ==
  input'.op = "removeFriend" =>
    LET u == input'.actor
        v == input'.body.friend
        balance == calculatePairwiseBalance(u, v).balance
        rest == {i \in 1..Len(friends) : friendship(u, v) # friends[i]}
    IN /\ friends' # friends => (friendshipExists(u, v) /\ balance = 0)
       /\ (friendshipExists(u, v) /\ balance = 0) =>
            /\ result'.status = 200
            /\ \A i \in 1..Len(friends') : friends'[i] # friendship(u, v)
            /\ Len(friends') = Cardinality(rest)
            /\ \A i \in rest : \E j \in 1..Len(friends') : friends'[j] = friends[i]
       /\ (friendshipExists(u, v) /\ balance # 0) =>
            /\ friends' = friends
            /\ result'.status # 200
            /\ result'.error \in SettleUpFirst

C23_RemovalGated == [][C23_Step]_vars

\* The last request was Alice's removal of Bob while Bob owed her, and it was
\* refused; the friendship is still there.
C23_Witness ==
  /\ result.done
  /\ input.op = "removeFriend"
  /\ result.status = 500
  /\ result.error \in SettleUpFirst
  /\ friendshipExists(input.actor, input.body.friend)
  /\ calculatePairwiseBalance(input.actor, input.body.friend).balance > 0

\* C24. Soft-delete lifecycle guards: a delete of an expense that is already
\* deleted is refused and leaves the expense, with the deletedBy, deletedAt and
\* deletedReason of the first delete, as it was; a restore of an expense that
\* is not deleted is refused and changes nothing; an update of a deleted
\* expense is refused and changes nothing; an expense becomes deleted only in a
\* delete step and active again only in a restore step; and no step changes
\* the amount or the participants of an expense that is deleted.
C24_Step ==
  /\ \A i \in 1..Len(expenses) :
       /\ (~expenses[i].isDeleted /\ expenses'[i].isDeleted) =>
            (input'.op = "delete" /\ input'.id = i)
       /\ (expenses[i].isDeleted /\ ~expenses'[i].isDeleted) =>
            (input'.op = "restore" /\ input'.id = i)
       /\ expenses[i].isDeleted =>
            /\ expenses'[i].amount = expenses[i].amount
            /\ expenses'[i].participants = expenses[i].participants
  /\ (input'.op \in {"update", "delete", "restore"} /\ input'.id \in 1..Len(expenses)) =>
       LET expense == expenses[input'.id]
           wrongState == IF input'.op = "restore" THEN ~expense.isDeleted
                         ELSE expense.isDeleted
       IN wrongState => (Refused(result'.status) /\ expenses' = expenses)

C24_LifecycleGuards == [][C24_Step]_vars

\* The last request was a delete, by a user who could delete it, of an expense
\* that another user had already deleted; it was refused.
C24_Witness ==
  /\ result.done
  /\ input.op = "delete"
  /\ input.id \in 1..Len(expenses)
  /\ result.status = 400
  /\ expenses[input.id].isDeleted
  /\ expenses[input.id].deletedBy # input.actor
  /\ isParticipant(expenses[input.id], input.actor)

\* C25. Restore authorization: a restore step changes an expense only when the
\* acting user is its creator or the user recorded in deletedBy; a restore of a
\* deleted expense by a payer or participant who is neither is refused with
\* 403 and the expense stays deleted.
C25_Step ==
  (input'.op = "restore" /\ input'.id \in 1..Len(expenses)) =>
    LET expense == expenses[input'.id]
        actor == input'.actor
        entitled == actor = expense.createdBy \/ actor = expense.deletedBy
        involved == expense.payer = actor \/ isParticipant(expense, actor)
    IN /\ expenses' # expenses => entitled
       /\ (expense.isDeleted /\ involved /\ ~entitled) =>
            /\ result'.status = 403
            /\ expenses' = expenses
            /\ expenses'[input'.id].isDeleted

C25_RestoreAuthorization == [][C25_Step]_vars

\* The last request was a restore by a participant who neither created nor
\* deleted the expense; it was refused and the expense is still deleted.
C25_Witness ==
  /\ result.done
  /\ input.op = "restore"
  /\ input.id \in 1..Len(expenses)
  /\ result.status = 403
  /\ expenses[input.id].isDeleted
  /\ isParticipant(expenses[input.id], input.actor)
  /\ input.actor # expenses[input.id].createdBy
  /\ input.actor # expenses[input.id].deletedBy

\* C26. A settlement is always recorded by one of its two parties: createdBy
\* of every stored settlement is its from or its to; and a request whose body
\* names a payer other than the caller, while the caller is not the recipient,
\* is refused and stores nothing.
C26_Parties ==
  \A k \in 1..Len(transactions) :
    transactions[k].createdBy \in {transactions[k].from, transactions[k].to}

C26_Step ==
  (/\ input'.op = "createTransaction"
   /\ "from" \in DOMAIN input'.body
   /\ input'.body.from # input'.actor
   /\ input'.body.to # input'.actor) =>
    /\ Refused(result'.status)
    /\ transactions' = transactions

C26_RecordedByParty == [](C26_Parties) /\ [][C26_Step]_vars

\* A stored settlement that was recorded by its recipient for another payer.
C26_Witness ==
  \E k \in 1..Len(transactions) :
    /\ transactions[k].createdBy = transactions[k].to
    /\ transactions[k].from # transactions[k].to
    /\ result.done
    /\ result.status = 201
    /\ "from" \in DOMAIN input.body

\* C27. Automatic bidirectional friendship: once every friendship call made for
\* a stored expense has finished, there is a Friend record in both directions
\* for every two different users among its payer and participants, whatever
\* addFriend calls and other createExpense requests ran in between; and in
\* every state no two Friend records have the same (user, friend) pair and no
\* record has user = friend.
Involved(expense) ==
  {expense.payer} \cup {expense.participants[k].user : k \in 1..Len(expense.participants)}

CallsFinished(id) ==
  \A k \in 1..Len(tasks) : tasks[k].for = id => Finished(tasks[k])

C27_BidirectionalFriendship ==
  /\ \A id \in 1..Len(expenses) :
       CallsFinished(id) =>
         \A u, v \in Involved(expenses[id]) : u # v => friendshipExists(u, v)
  /\ \A i, j \in 1..Len(friends) : i # j => friends[i] # friends[j]
  /\ \A i \in 1..Len(friends) : friends[i].user # friends[i].friend

\* C28. Aggregate and pairwise views agree: for every two different users U and
\* V, V has an entry in perUser of calculateOverallBalance(U) exactly when
\* calculatePairwiseBalance(U, V).balance is not 0, and the balance of that
\* entry is the pairwise balance.
C28_ViewsAgree ==
  \A u, v \in Users :
    u # v =>
      LET perUser == calculateOverallBalance(u).perUser
          entriesOf == {i \in 1..Len(perUser) : perUser[i].user = v}
          pairwise == calculatePairwiseBalance(u, v).balance
      IN /\ (entriesOf = {}) <=> (pairwise = 0)
         /\ \A i \in entriesOf : perUser[i].balance = pairwise

\* Bob owes Charlie from an expense and has paid a part of it back: both views
\* give the same non-zero remainder.
C28_Witness ==
  /\ \E i \in 1..Len(expenses) :
       ~expenses[i].isDeleted /\ expenses[i].payer = "charlie"
                              /\ isParticipant(expenses[i], "bob")
  /\ \E k \in 1..Len(transactions) :
       transactions[k].from = "bob" /\ transactions[k].to = "charlie"
  /\ calculatePairwiseBalance("charlie", "bob").balance > 0
  /\ \E i \in 1..Len(calculateOverallBalance("charlie").perUser) :
       calculateOverallBalance("charlie").perUser[i].user = "bob"

\* C29. Aggregate totals reconcile with the breakdown: for every user U,
\* netBalance = totalOwed - totalOwing of calculateOverallBalance(U) is the sum
\* of the balances of U's perUser entries, and the netBalance of all users
\* sums to 0.
BreakdownSum(u) ==
  LET perUser == calculateOverallBalance(u).perUser
      balanceAt == [i \in 1..Len(perUser) |-> perUser[i].balance]
  IN SumOver(1..Len(perUser), balanceAt)

C29_TotalsReconcile ==
  /\ \A u \in Users :
       LET overall == calculateOverallBalance(u)
       IN /\ overall.netBalance = overall.totalOwed - overall.totalOwing
          /\ overall.netBalance = BreakdownSum(u)
  /\ SumOver(Users, [u \in Users |-> calculateOverallBalance(u).netBalance]) = 0

\* C30. Share-sum invariant under concurrent edits: when two edits of the same
\* expense overlap, one changing only the amount and the other only the
\* participants, and both have saved, the shares of the stored expense sum to
\* its amount within 1 paisa.
C30_ShareSumKept ==
  \A r, q \in 1..Len(requests) :
    (/\ Overlap(r, q)
     /\ modifiedPaths(requests[r]) = {"amount"}
     /\ modifiedPaths(requests[q]) = {"participants"}) =>
      LET stored == expenses[requests[r].id]
      IN abs(sumShares(stored.participants) - stored.amount) <= 1

====
